---- MODULE Spec2Model ----
(***************************************************************************)
(* A model of sage/groups/perm_gps/partn_ref/double_coset.pyx: the double  *)
(* coset search double_coset, its wrapper coset_eq and the trivial client  *)
(* callbacks.  The partition stack, orbit partition and stabilizer chain   *)
(* primitives live in data_structures.pyx/.pxd, which is not part of the   *)
(* sources at hand; they are modelled from their documented contracts.     *)
(***************************************************************************)
EXTENDS Integers, FiniteSets, Sequences, TLC

\* Largest degree n of the inputs that are explored.
MaxN == 3

\* cdef int len_of_fp_and_mcr = 100
len_of_fp_and_mcr == 100

\* The NULL pointer where an int array is expected (ordering2, isom).
NULL == << >>

\* The NULL pointer where a stabilizer chain is expected (input_group): the
\* chain of a group is modelled by the set of its elements, never empty.
NO_GROUP == {}

\* The value of a C local that has not been assigned yet: no point, depth,
\* index or answer is this number.
UNSET == -1000

\* What the caller sees when MemoryError is raised (`except -1`).
MemoryError == -1

(***************************************************************************)
(* Permutations and lists of degree n are functions on 0 .. n-1.           *)
(***************************************************************************)
Pts(n) == 0 .. (n - 1)

Perms(n) == {p \in [Pts(n) -> Pts(n)] : \A i, j \in Pts(n) : p[i] = p[j] => i = j}

IdPerm(n) == [i \in Pts(n) |-> i]

SetMin(s) == CHOOSE x \in s : \A y \in s : x <= y

SetMax(s) == CHOOSE x \in s : \A y \in s : x >= y

\* The sum of f[x] over x in s.
RECURSIVE SumOver(_, _)
SumOver(f, s) == IF s = {} THEN 0
                 ELSE LET x == CHOOSE y \in s : TRUE
                      IN f[x] + SumOver(f, s \ {x})

\* bitset_next(bits, j): the least member >= j, or -1.
bitset_next(bits, j) == IF \E x \in bits : x >= j
                        THEN SetMin({x \in bits : x >= j})
                        ELSE -1

\* An int array, given by the value of each of its elements.
Array(f) == f @@ f

\* SC_mult_perms(out, first, second): out[i] = second[first[i]].
SC_mult_perms(first, second) == Array([i \in DOMAIN first |-> second[first[i]]])

(***************************************************************************)
(* Stabilizer chain (component C), seen through its contract: the group    *)
(* it represents, as a set of permutations, and its base.                  *)
(***************************************************************************)
RECURSIVE GroupClosure(_, _)
GroupClosure(H, gens) ==
    LET H2 == H \cup {SC_mult_perms(h, g) : h \in H, g \in gens}
    IN IF H2 = H THEN H ELSE GroupClosure(H2, gens)

\* SC_new(n, 1) followed by SC_insert of every generator.
GroupOf(gens, n) == GroupClosure({IdPerm(n)}, gens)

Subgroups(n) == {GroupOf({a, b}, n) : a \in Perms(n), b \in Perms(n)}

\* SC_contains(group, 0, permutation, 0)
SC_contains(G, perm) == perm \in G

\* The subgroup generated by generators[level'] for level' >= level: the
\* pointwise stabilizer of the first `level` base points.
StabLevel(G, base, level) ==
    {g \in G : \A t \in 1 .. level : t <= Len(base) => g[base[t]] = base[t]}

GroupOrbit(H, x) == {h[x] : h \in H}

\* orbits.mcr[OP_find(orbits, x)] after merging the generators of H.
OrbitMcr(H, x) == SetMin(GroupOrbit(H, x))

\* group.parents[level][x] != -1: x is in the basic orbit of level `level`.
SC_in_basic_orbit(G, base, level, x) ==
    /\ level < Len(base)
    /\ x \in GroupOrbit(StabLevel(G, base, level), base[level + 1])

\* A base for the chain built by SC_insert: points are added while the
\* stabilizer of the points so far still moves something.
RECURSIVE SC_initial_base(_, _, _)
SC_initial_base(G, n, base) ==
    LET H == StabLevel(G, base, Len(base))
        moved == {x \in Pts(n) : \E h \in H : h[x] # x}
    IN IF moved = {} THEN base
       ELSE SC_initial_base(G, n, Append(base, SetMin(moved)))

\* SC_insert_base_point_nomalloc(dest, src, level, b): the base of src up to
\* `level`, then b, then the remaining base points of src.
SC_insert_base_point(base, level, b) ==
    LET keep == SubSeq(base, 1, IF level <= Len(base) THEN level ELSE Len(base))
        rest == SelectSeq(SubSeq(base, level + 1, Len(base)), LAMBDA p : p # b)
    IN keep \o <<b>> \o rest

\* update_perm_stack(group, level, point, perm_stack): row `level` is row
\* level-1 followed by the coset representative, in the stabilizer of level-1,
\* that takes the image of `point` back to the base point of level-1.
update_perm_stack(G, base, level, point, perm_stack) ==
    LET prev == perm_stack[level - 1]
        x == prev[point]
        H == StabLevel(G, base, level - 1)
        reps == {u \in H : level <= Len(base) /\ u[x] = base[level]}
    IN IF reps = {} THEN perm_stack
       ELSE [perm_stack EXCEPT ![level] =
                SC_mult_perms(prev, CHOOSE u \in reps : TRUE)]

\* Whether update_perm_stack would walk off the Schreier tree (the image of
\* the point is not in the basic orbit).
update_perm_stack_undefined(G, base, level, point, perm_stack) ==
    ~ SC_in_basic_orbit(G, base, level - 1, perm_stack[level - 1][point])

(***************************************************************************)
(* Partition stack (component A): entries, levels and depth.  Position i   *)
(* ends a cell of the partition at depth d iff levels[i] <= d.             *)
(***************************************************************************)
PS_degree(PS) == Cardinality(DOMAIN PS.entries)

\* PS_new(n, 1): the unit partition at depth 0.
PS_new_unit(n) ==
    [entries |-> IdPerm(n),
     levels |-> [i \in Pts(n) |-> IF i = n - 1 THEN -1 ELSE n],
     depth |-> 0]

CellStart(levels, d, p) == SetMax({q \in 0 .. p : q = 0 \/ levels[q - 1] <= d})

CellEnd(levels, d, p) ==
    SetMin({q \in DOMAIN levels : q >= p /\
              (levels[q] <= d \/ q = Cardinality(DOMAIN levels) - 1)})

\* The position of the least of entries[start .. end] (the first such).
MinLoc(entries, start, end) ==
    CHOOSE q \in start .. end : \A r \in start .. end : entries[q] <= entries[r]

\* PS_move_min_to_front applied to the cells, of the partition whose cell
\* ends are the positions with levels[i] <= d, that end at a position of `ends`.
MoveMinsIn(entries, levels, d, ends) ==
    LET moved(p, st, en) ==
           IF en \notin ends THEN entries[p]
           ELSE IF p = st THEN entries[MinLoc(entries, st, en)]
           ELSE IF p = MinLoc(entries, st, en) THEN entries[st]
           ELSE entries[p]
    IN Array([p \in DOMAIN entries |->
                moved(p, CellStart(levels, d, p), CellEnd(levels, d, p))])

\* PS_move_min_to_front applied to every cell of that partition.
MoveMins(entries, levels, d) == MoveMinsIn(entries, levels, d, DOMAIN entries)

PS_move_all_mins_to_front(PS) ==
    [PS EXCEPT !.entries = MoveMins(PS.entries, PS.levels, PS.depth)]

PS_is_discrete(PS) == \A i \in DOMAIN PS.levels : PS.levels[i] <= PS.depth

\* Every cell of the partition at the current depth has its least element first.
PS_mins_first(PS) ==
    \A p \in DOMAIN PS.entries :
       PS.entries[CellStart(PS.levels, PS.depth, p)] <= PS.entries[p]

\* PS_clear: forget the cell ends that are new to the current depth.
PS_clear(PS) ==
    LET lv == Array([i \in DOMAIN PS.levels |->
                       IF PS.levels[i] = PS.depth THEN PS.levels[i] + 1
                       ELSE PS.levels[i]])
    IN [PS EXCEPT !.levels = lv,
                  !.entries = MoveMins(PS.entries, lv, PS.depth - 1)]

\* PS_split_point(PS, v): v becomes a singleton cell in front of its cell.
\* The result is <<the new stack, the position of v>>.
PS_split_point(PS, v) ==
    LET e == PS.entries
        lv == PS.levels
        iv == CHOOSE i \in DOMAIN e : e[i] = v
        en == CellEnd(lv, PS.depth, iv)
        st == CellStart(lv, PS.depth, iv)
    IN IF iv = st /\ lv[iv] > PS.depth
       THEN LET ml == CHOOSE q \in (iv + 1) .. en :
                       \A r \in (iv + 1) .. en : e[q] <= e[r]
                e2 == [e EXCEPT ![ml] = e[iv + 1], ![iv + 1] = e[ml]]
            IN <<[PS EXCEPT !.entries = e2, !.levels = [lv EXCEPT ![iv] = PS.depth]], iv>>
       ELSE IF st = en
       THEN <<[PS EXCEPT !.levels = [lv EXCEPT ![st] = PS.depth]], st>>
       ELSE LET e1 == [e EXCEPT ![iv] = e[st + 1]]
                e2 == [e1 EXCEPT ![st + 1] = e1[st]]
                e3 == [e2 EXCEPT ![st] = v]
            IN <<[PS EXCEPT !.entries = e3, !.levels = [lv EXCEPT ![st] = PS.depth]], st>>

\* PS_first_smallest(PS, b): the earliest cell with more than one element;
\* the result is <<the cell as a bitset, the element at its first position>>.
PS_first_smallest(PS) ==
    LET n == PS_degree(PS)
        nontrivial == {p \in DOMAIN PS.entries :
                         CellStart(PS.levels, PS.depth, p) = p /\
                         CellEnd(PS.levels, PS.depth, p) > p}
        location == IF nontrivial = {} THEN 0 ELSE SetMin(nontrivial)
        en == CellEnd(PS.levels, PS.depth, location)
    IN <<{PS.entries[p] : p \in location .. en}, PS.entries[location]>>

\* stacks_are_equivalent(PS1, PS2): the same cell ends at the lesser depth.
stacks_are_equivalent(PS1, PS2) ==
    LET depth == IF PS1.depth <= PS2.depth THEN PS1.depth ELSE PS2.depth
    IN \A i \in DOMAIN PS1.levels :
          (PS1.levels[i] <= depth) <=> (PS2.levels[i] <= depth)

\* PS_get_perm_from(PS1, PS2, gamma): gamma[PS2.entries[i]] = PS1.entries[i],
\* the direction in which coset_eq() answers [5, 0, 1, 2, 3, 4] (line 130).
PS_get_perm_from(PS1, PS2) ==
    Array([x \in DOMAIN PS2.entries |->
             PS1.entries[CHOOSE i \in DOMAIN PS2.entries : PS2.entries[i] = x]])

\* PS_is_mcr(PS, m) and PS_is_fixed(PS, m), both read at position m.
PS_is_mcr(PS, m) == m = 0 \/ PS.levels[m - 1] <= PS.depth

PS_is_fixed(PS, m) == PS.levels[m] <= PS.depth

(***************************************************************************)
(* The client callbacks of this module and the refinement driver           *)
(* (component D).                                                          *)
(***************************************************************************)
\* all_children_are_equivalent_trivial
all_children_are_equivalent_trivial(PS, S) == FALSE

\* refine_and_return_invariant_trivial: <<the stack, unchanged; the invariant>>
refine_and_return_invariant_trivial(PS, S) == <<PS, 0>>

\* The callbacks the caller passes to double_coset (lines 271-273): "trivial"
\* for those of this module, "pair" and "always" for another
\* all_children_are_equivalent, "labels" for another
\* refine_and_return_invariant, "late_labels" for another of each.
VARIABLE callbacks

\* A refinement of a caller whose invariant is the sum of the points that
\* are alone in their cells, each times its position plus one; the stack is
\* left as it is.
refine_and_return_invariant_labels(PS, S) ==
    <<PS, SumOver([i \in DOMAIN PS.entries |-> (i + 1) * PS.entries[i]],
                  {i \in DOMAIN PS.entries :
                      PS_is_fixed(PS, i) /\ PS_is_mcr(PS, i)})>>

\* A refinement of another caller: it splits no cell, and its invariant
\* reads the labels of the points that are alone in their cell after the
\* first position.
refine_and_return_invariant_late_labels(PS, S) ==
    <<PS, SumOver([i \in DOMAIN PS.entries |-> (i + 1) * PS.entries[i]],
                  {i \in DOMAIN PS.entries :
                      i > 0 /\ PS_is_fixed(PS, i) /\ PS_is_mcr(PS, i)})>>

\* refine_and_return_invariant, the refinement passed to double_coset
\* (lines 272-273).
refine_and_return_invariant(PS, S) ==
    CASE callbacks = "labels" -> refine_and_return_invariant_labels(PS, S)
      [] callbacks = "late_labels" ->
            refine_and_return_invariant_late_labels(PS, S)
      [] OTHER -> refine_and_return_invariant_trivial(PS, S)

int_cmp(a, b) == IF a < b THEN -1 ELSE IF a > b THEN 1 ELSE 0

\* compare_perms reading MS1[i] in place of MS1[gamma_1[i]].
compare_perms_direct(gamma_1, gamma_2, MS1, MS2, degree) ==
    LET diff == {i \in Pts(degree) : int_cmp(MS1[i], MS2[gamma_2[i]]) # 0}
    IN IF diff = {} THEN 0
       ELSE int_cmp(MS1[SetMin(diff)], MS2[gamma_2[SetMin(diff)]])

\* compare_perms(gamma_1, gamma_2, S1, S2, degree)
compare_perms(gamma_1, gamma_2, MS1, MS2, degree) ==
    LET diff == {i \in Pts(degree) : int_cmp(MS1[gamma_1[i]], MS2[gamma_2[i]]) # 0}
    IN IF diff = {} THEN 0
       ELSE int_cmp(MS1[gamma_1[SetMin(diff)]], MS2[gamma_2[SetMin(diff)]])

\* sort_by_function is a stable counting sort of a cell by degrees[x], the
\* value of element x.  Element PS.entries[p] goes to this position.
sort_position(PS, degrees, p) ==
    LET e == PS.entries
        st == CellStart(PS.levels, PS.depth, p)
        en == CellEnd(PS.levels, PS.depth, p)
    IN st + Cardinality({q \in st .. en :
                           degrees[e[q]] < degrees[e[p]] \/
                           (degrees[e[q]] = degrees[e[p]] /\ q < p)})

\* The entries after every cell has been sorted.
sorted_entries(PS, degrees) ==
    Array([t \in DOMAIN PS.entries |->
             PS.entries[CHOOSE p \in DOMAIN PS.entries :
                           sort_position(PS, degrees, p) = t]])

\* The levels after every sorted cell has been split where the value changes.
split_levels(PS, degrees, ne) ==
    Array([t \in DOMAIN ne |->
             IF PS.levels[t] > PS.depth /\ degrees[ne[t]] # degrees[ne[t + 1]]
             THEN PS.depth
             ELSE PS.levels[t]])

\* The number of elements of the part of position p.
part_size(nl, d, p) == CellEnd(nl, d, p) - CellStart(nl, d, p) + 1

\* max_location: where the largest part of the cell st .. en starts (the part
\* of the least value, among the largest).
max_location(nl, d, st, en) ==
    CHOOSE p \in st .. en :
       /\ p = CellStart(nl, d, p)
       /\ \A q \in st .. en :
             /\ part_size(nl, d, q) <= part_size(nl, d, p)
             /\ part_size(nl, d, q) = part_size(nl, d, p) => p <= q

\* What the calls of sort_by_function on the cells of PS return, added up
\* with the sizes of the cells, as refine_by_orbits adds them up.
sort_invariant(PS, nl) ==
    LET lv == PS.levels
        d == PS.depth
    IN SumOver([p \in DOMAIN lv |->
                  IF p = CellStart(lv, d, p)
                  THEN max_location(nl, d, p, CellEnd(lv, d, p))
                          + CellEnd(lv, d, p) - p + 1
                  ELSE 0],
               DOMAIN lv)

\* The stack after the sort, with the least element in front of every part
\* but the last of its cell, and the invariant.
sort_result(PS, ne, nl) ==
    <<[PS EXCEPT !.entries = MoveMinsIn(ne, nl, PS.depth,
                                {t \in DOMAIN ne : PS.levels[t] > PS.depth}),
                 !.levels = nl],
      sort_invariant(PS, nl)>>

sort_entries_by_function(PS, degrees, ne) ==
    sort_result(PS, ne, split_levels(PS, degrees, ne))

\* sort_by_function(PS, start, degrees) for every cell start of PS.
sort_by_function(PS, degrees) ==
    sort_entries_by_function(PS, degrees, sorted_entries(PS, degrees))

\* The result <<stack, invariant>> with k more in the invariant.
AddToInvariant(r, k) == <<r[1], r[2] + k>>

\* min_cell_reps of refine_by_orbits: for each element, the least point of
\* the orbit, under the stabilizer of the current level, of its image under
\* row PS.depth of perm_stack.
min_cell_reps(PS, H, perm) ==
    Array([x \in DOMAIN PS.entries |-> OrbitMcr(H, perm[x])])

\* refine_by_orbits(PS, SC, perm_stack, ...): every cell is sorted by
\* min_cell_reps.  The result is <<the stack, the invariant>>.
refine_by_orbits(PS, G, base, perm_stack) ==
    AddToInvariant(
        sort_by_function(PS, min_cell_reps(PS, StabLevel(G, base, PS.depth),
                                           perm_stack[PS.depth])),
        1)

\* The client refinement applied to the result r of refine_by_orbits.
then_refine(r, S) ==
    AddToInvariant(refine_and_return_invariant(r[1], S), r[2])

\* refine_also_by_orbits with the refinement of the caller.
refine_also_by_orbits(PS, S, G, base, perm_stack) ==
    then_refine(refine_by_orbits(PS, G, base, perm_stack), S)

\* PS.depth += 1; PS_clear(PS); PS_split_point(PS, v)
split_point(PS, v) ==
    PS_split_point(PS_clear([PS EXCEPT !.depth = PS.depth + 1]), v)[1]

\* split_point_and_refine(PS, v, S, refine, cells): <<the stack, the invariant>>
split_point_and_refine(PS, v, S) ==
    refine_and_return_invariant(split_point(PS, v), S)

\* The result r of a refinement together with the perm_stack it was made with.
with_perm_stack(r, perm_stack) == <<r[1], r[2], perm_stack>>

refine_split_by_orbits(P2, S, G, base, perm_stack) ==
    with_perm_stack(refine_also_by_orbits(P2, S, G, base, perm_stack), perm_stack)

\* split_point_and_refine_by_orbits(PS, v, S, refine, cells, SC, perm_stack):
\* <<the stack, the invariant, perm_stack>>
split_point_and_refine_by_orbits(PS, v, S, G, base, perm_stack) ==
    refine_split_by_orbits(split_point(PS, v), S, G, base,
        update_perm_stack(G, base, PS.depth + 1, v, perm_stack))

(***************************************************************************)
(* Orbit partition (component B): each point is mapped to the least point  *)
(* of its class, which is all the engine observes of the union-find.       *)
(***************************************************************************)
OP_new(n) == IdPerm(n)

OP_join(orbits, a, b) ==
    LET m == IF orbits[a] <= orbits[b] THEN orbits[a] ELSE orbits[b]
    IN Array([x \in DOMAIN orbits |->
                IF orbits[x] = orbits[a] \/ orbits[x] = orbits[b] THEN m
                ELSE orbits[x]])

RECURSIVE OP_merge_from(_, _, _)
OP_merge_from(orbits, gamma, i) ==
    IF i \notin DOMAIN orbits THEN orbits
    ELSE OP_merge_from(OP_join(orbits, i, gamma[i]), gamma, i + 1)

\* OP_merge_list_perm(OP, gamma): <<the partition, whether it got coarser>>
OP_merge_list_perm(orbits, gamma) ==
    LET merged == OP_merge_from(orbits, gamma, 0)
    IN <<merged, merged # orbits>>

(***************************************************************************)
(* The work space: allocate_dc_work_space and deallocate_dc_work_space.    *)
(***************************************************************************)
\* The pointers of a dc_work_space that allocate_dc_work_space tests on
\* lines 226-232.
Components ==
    {"int_array", "group1", "group2", "current_ps", "first_ps", "bitset_array",
     "orbits_of_subgroup"}

\* The struct itself and what it points to.
Parts == Components \cup {"work_space"}

\* The number of bitsets of a work space of degree k (lines 222, 241, 259).
NBitsets(k) == k + 2 * len_of_fp_and_mcr + 1

\* sig_free and the dealloc functions: a NULL pointer is left alone, live
\* memory is freed, freed memory is freed again.
Free(status) ==
    IF status = "never" THEN "never"
    ELSE IF status = "live" THEN "freed"
    ELSE "freed twice"

\* Nothing is allocated: every pointer is NULL.  Of the bitsets, the first
\* `inited` have bits that bitset_init allocated, and the loop of bitset_free
\* has run `freed` times over all of them.
NoWorkSpace ==
    [parts |-> [c \in Parts |-> "never"], perm_stack |-> FALSE,
     inited |-> 0, freed |-> 0]

\* The state of the memory of bitset i.
BitStatus(h, i) ==
    IF i >= h.inited THEN "never"
    ELSE IF h.freed = 0 THEN "live"
    ELSE IF h.freed = 1 THEN "freed"
    ELSE "freed twice"

\* deallocate_dc_work_space (lines 251-268).
deallocate_dc_work_space(h) ==
    IF h.parts["work_space"] = "never"
    THEN h
    ELSE [parts |-> [c \in Parts |->
                       IF c = "int_array"
                       THEN IF h.perm_stack THEN Free(h.parts[c]) ELSE h.parts[c]
                       ELSE Free(h.parts[c])],
          perm_stack |-> h.perm_stack,
          inited |-> h.inited,
          freed |-> IF h.parts["bitset_array"] # "never" THEN h.freed + 1
                    ELSE h.freed]

\* Lines 210-224, with failed the allocations that return NULL.
Allocated(failed) ==
    [parts |-> [c \in Parts |-> IF c \in failed THEN "never" ELSE "live"],
     perm_stack |-> FALSE, inited |-> 0, freed |-> 0]

\* AllocatedPartly with work_space.perm_stack pointing to int_array before
\* the pointers are tested, in place of NULL (line 224).
AllocatedPartlyPointing(failed) ==
    deallocate_dc_work_space(
        [Allocated(failed) EXCEPT
            !.perm_stack = TRUE,
            !.parts["int_array"] = Free(Allocated(failed).parts["int_array"])])

\* Lines 226-235: one of the pointers is NULL.
AllocatedPartly(failed) ==
    deallocate_dc_work_space(
        [Allocated(failed) EXCEPT
            !.parts["int_array"] = Free(Allocated(failed).parts["int_array"])])

\* Lines 237-248, with k the number of bitsets that bitset_init allocates
\* before it raises MemoryError, or all of them.
AllocatedBitsets(degree, k) ==
    IF k < NBitsets(degree)
    THEN deallocate_dc_work_space(
            [Allocated({}) EXCEPT !.perm_stack = TRUE, !.inited = k])
    ELSE [Allocated({}) EXCEPT !.perm_stack = TRUE, !.inited = k]

\* allocate_dc_work_space(n) when every allocation succeeds.
allocate_dc_work_space(degree) == AllocatedBitsets(degree, NBitsets(degree))

(***************************************************************************)
(* The inputs of one call of double_coset.                                 *)
(***************************************************************************)
\* The lists handed to compare_perms as S1 and S2.
Structures(n) == [Pts(n) -> Pts(n)]

\* Partition stacks of depth 0 and degree n: the cells end where levels is 0.
Partitions(n) ==
    {[entries |-> e, levels |-> lv, depth |-> 0] :
        e \in Perms(n),
        lv \in {l \in [Pts(n) -> {-1, 0, n}] :
                  \A i \in Pts(n) : (l[i] = -1) <=> (i = n - 1)}}

\* The precondition of double_coset: partition1, and the partition that
\* ordering2 makes with the levels of partition1, have the least element of
\* every cell first.
ValidInput(P, o2) ==
    /\ PS_mins_first(P)
    /\ PS_mins_first([P EXCEPT !.entries = o2])

VARIABLES
    n,                      \* int n
    S1, S2,                 \* void *S1, *S2
    partition1,             \* the value of *partition1 at the call
    ordering2,              \* int *ordering2
    input_group,            \* StabilizerChain *input_group (its group), or NULL
    work_space_prealloc,    \* whether a work space is supplied
    isom,                   \* int *isom: NULL, or the buffer's contents
    pc,                     \* the place in double_coset
    ret,                    \* the value returned, once pc is "done"
    work_space,             \* "none", "live" or "freed"
    heap,                   \* what is allocated of the work space, and what freed
    left_ps, current_ps, first_ps,
    first_meets_current, current_kids_are_same, first_kids_are_same,
    indicators,
    orbits_of_subgroup,
    subgroup_primary_orbit_size, minimal_in_primary_orbit,
    fixed_points_of_generators, minimal_cell_reps_of_generators,
    index_in_fp_and_mcr,
    vertices_to_split, vertices_have_been_reduced,
    permutation,
    vertices_determining_current_stack,
    perm_stack,
    group,                  \* the base of the chain `group` points to
    possible, unknown, mem_err, automorphism,
    earlier                 \* what the caller keeps of an earlier call

\* The work space and the memory it points to.
memory == <<work_space, heap>>

arguments == <<n, S1, S2, partition1, ordering2, input_group,
               work_space_prealloc, callbacks>>

\* What no step of double_coset changes.
inputs == <<arguments, earlier>>

stacks == <<left_ps, current_ps, first_ps>>

chain == <<perm_stack, group>>

pruner == <<fixed_points_of_generators, minimal_cell_reps_of_generators,
            index_in_fp_and_mcr>>

primary == <<orbits_of_subgroup, subgroup_primary_orbit_size,
             minimal_in_primary_orbit>>

meets == <<first_meets_current, current_kids_are_same, first_kids_are_same>>

split == <<vertices_to_split, vertices_have_been_reduced,
           vertices_determining_current_stack>>

flags == <<possible, unknown, mem_err, automorphism>>

vars == <<inputs, isom, pc, ret, memory, stacks, chain, pruner, primary,
          meets, split, flags, indicators, permutation>>

(***************************************************************************)
(* The state at the call.                                                  *)
(***************************************************************************)
PermsOf == [k \in 0 .. MaxN |-> Perms(k)]

SubgroupsOf == [k \in 0 .. MaxN |-> Subgroups(k)]

\* The contents of memory that has been allocated and not written yet.
Blank(k) == [i \in Pts(k) |-> UNSET]

BlankStack(k) == [entries |-> Blank(k), levels |-> Blank(k), depth |-> UNSET]

\* The isom buffer as the caller hands it over: no element is a point yet.
IsomBefore(k) == [i \in Pts(k) |-> -1]

\* ordering2, or id_perm when it is NULL (lines 403-404).
Ordering(o2, k) == IF o2 = NULL THEN IdPerm(k) ELSE o2

\* Lines 323-355: the locals of double_coset at the call.
Locals ==
    /\ pc = "entry"
    /\ ret = UNSET
    /\ work_space = IF work_space_prealloc THEN "live" ELSE "none"
    /\ heap = IF work_space_prealloc THEN allocate_dc_work_space(n) ELSE NoWorkSpace
    /\ left_ps = partition1
    /\ current_ps = BlankStack(n)
    /\ first_ps = BlankStack(n)
    /\ first_meets_current = -1
    /\ current_kids_are_same = 1
    /\ first_kids_are_same = UNSET
    /\ indicators = Blank(n)
    /\ orbits_of_subgroup = OP_new(n)
    /\ subgroup_primary_orbit_size = 0
    /\ minimal_in_primary_orbit = UNSET
    /\ fixed_points_of_generators = <<>>
    /\ minimal_cell_reps_of_generators = <<>>
    /\ index_in_fp_and_mcr = -1
    /\ vertices_to_split = [d \in Pts(n) |-> {}]
    /\ vertices_have_been_reduced = {}
    /\ permutation = Blank(n)
    /\ vertices_determining_current_stack = Blank(n)
    /\ perm_stack = [d \in Pts(n) |-> Blank(n)]
    /\ group = <<>>
    /\ possible = TRUE
    /\ unknown = TRUE
    /\ mem_err = FALSE
    /\ automorphism = FALSE

\* Every call of degree k: any two lists, any partition and ordering that
\* meet the precondition, any group or none, any work space and isom.
AllInputs(k) ==
    /\ n = k
    /\ S1 \in Structures(k)
    /\ S2 \in Structures(k)
    /\ partition1 \in Partitions(k)
    /\ ordering2 = NULL \/ ordering2 \in PermsOf[k]
    /\ ValidInput(partition1, Ordering(ordering2, k))
    /\ input_group = NO_GROUP \/ input_group \in SubgroupsOf[k]
    /\ work_space_prealloc \in BOOLEAN
    /\ callbacks = "trivial"
    /\ isom = NULL \/ isom = IsomBefore(k)

\* The calls coset_eq makes (line 190): two permutations, the unit partition
\* PS_new(n, 1), the identity as ordering2, the group of the generators, no
\* work space and a buffer for isom.
CosetEqInputs(k) ==
    /\ n = k
    /\ S1 \in PermsOf[k]
    /\ S2 \in PermsOf[k]
    /\ partition1 = PS_new_unit(k)
    /\ ordering2 = IdPerm(k)
    /\ input_group \in SubgroupsOf[k]
    /\ work_space_prealloc = FALSE
    /\ callbacks = "trivial"
    /\ isom = IsomBefore(k)

\* The degree of the doctest of coset_eq: SymmetricGroup(4), line 133.
DoctestDegree == 4

\* The three groups of the doctest of coset_eq (lines 131, 144 and 157).
\* Lines 185-188: the generator g as the array c_perm.
c_perm(g) == Array([i \in Pts(Len(g)) |-> g[i + 1]])

\* The three groups of the doctest of coset_eq (lines 131, 144 and 157).
DoctestGroups ==
    {GroupOf({c_perm(<<1, 2, 3, 0>>)}, DoctestDegree),
     GroupOf({c_perm(<<1, 0, 2, 3>>), c_perm(<<0, 1, 3, 2>>)}, DoctestDegree),
     GroupOf({c_perm(<<1, 2, 0, 3>>)}, DoctestDegree)}

\* The calls the doctest of coset_eq makes: coset_eq(p, r, gens) for p and r in
\* SymmetricGroup(4).
DoctestInputs ==
    /\ n = DoctestDegree
    /\ S1 \in Perms(DoctestDegree)
    /\ S2 \in Perms(DoctestDegree)
    /\ partition1 = PS_new_unit(DoctestDegree)
    /\ ordering2 = IdPerm(DoctestDegree)
    /\ input_group \in DoctestGroups
    /\ work_space_prealloc = FALSE
    /\ callbacks = "trivial"
    /\ isom = IsomBefore(DoctestDegree)

\* Lists up to a renaming of their values: every value is at most one more
\* than the values before it.
FirstSeen(k) ==
    {s \in Structures(k) :
        \A i \in Pts(k) : \A v \in 0 .. (s[i] - 1) : \E j \in 0 .. (i - 1) : s[j] = v}

\* Calls on the unit partition with any two lists and any group or none.
ListInputs(k) ==
    /\ n = k
    /\ S1 \in FirstSeen(k)
    /\ S2 \in Structures(k)
    /\ partition1 = PS_new_unit(k)
    /\ ordering2 = NULL
    /\ input_group = NO_GROUP \/ input_group \in SubgroupsOf[k]
    /\ work_space_prealloc = FALSE
    /\ callbacks = "trivial"
    /\ isom = IsomBefore(k)

\* The lists with the values of S, each as often as in S.
Rearranged(S, k) ==
    {T \in Structures(k) : \E g \in PermsOf[k] : \A x \in Pts(k) : T[x] = S[g[x]]}

\* Calls that compare a list with a rearrangement of it under any partition
\* and ordering.
PartitionInputs(k) ==
    /\ n = k
    /\ S1 \in FirstSeen(k)
    /\ S2 \in Rearranged(S1, k)
    /\ partition1 \in Partitions(k)
    /\ ordering2 = NULL \/ ordering2 \in PermsOf[k]
    /\ ValidInput(partition1, Ordering(ordering2, k))
    /\ input_group = NO_GROUP \/ input_group \in SubgroupsOf[k]
    /\ work_space_prealloc = FALSE
    /\ callbacks = "trivial"
    /\ isom = IsomBefore(k)

Init ==
    /\ \/ \E k \in 0 .. (MaxN - 1) : AllInputs(k)
       \/ CosetEqInputs(MaxN)
       \/ ListInputs(MaxN)
       \/ PartitionInputs(MaxN)
       \/ DoctestInputs
    /\ Locals
    /\ earlier = <<>>

(***************************************************************************)
(* double_coset, lines 357-365: the degenerate input and the work space.   *)
(***************************************************************************)
\* Entry with the test n == 0 after the work space is taken.
EntryLate ==
    /\ pc = "entry"
    /\ work_space' = "live"
    /\ heap' = IF work_space_prealloc THEN heap ELSE allocate_dc_work_space(n)
    /\ IF n = 0
       THEN /\ ret' = 0
            /\ pc' = "done"
       ELSE /\ pc' = "setup"
            /\ UNCHANGED ret
    /\ UNCHANGED <<inputs, isom, stacks, chain, pruner, primary, meets, split,
                   flags, indicators, permutation>>

Entry ==
    /\ pc = "entry"
    /\ IF n = 0
       THEN /\ ret' = 0
            /\ pc' = "done"
            /\ UNCHANGED memory
       ELSE /\ work_space' = "live"
            /\ heap' = IF work_space_prealloc THEN heap
                       ELSE allocate_dc_work_space(n)
            /\ pc' = "setup"
            /\ UNCHANGED ret
    /\ UNCHANGED <<inputs, isom, stacks, chain, pruner, primary, meets, split,
                   flags, indicators, permutation>>

\* Lines 363-365: allocate_dc_work_space returns NULL.
AllocFails ==
    /\ pc = "entry"
    /\ n # 0
    /\ ~ work_space_prealloc
    /\ ret' = MemoryError
    /\ pc' = "done"
    /\ UNCHANGED <<inputs, isom, memory, stacks, chain, pruner, primary,
                   meets, split, flags, indicators, permutation>>

\* The invariant and the refined stack of the first refinement (lines 423-438).
FirstRefinement(PS, S, base, pstack) ==
    IF input_group = NO_GROUP
    THEN refine_and_return_invariant(PS, S)
    ELSE refine_also_by_orbits(PS, S, input_group, base, pstack)

(***************************************************************************)
(* Lines 367-446: the locals, the copy of ordering2 into current_ps and    *)
(* the refinement of both stacks at depth 0.                               *)
(***************************************************************************)
\* SetupCompared without lines 439-444: the search goes on whatever the
\* refinements at depth 0 gave.
SetupComparedAnyway(l, c, same) ==
    /\ left_ps' = l[1]
    /\ current_ps' = PS_move_all_mins_to_front(c[1])
    /\ possible' = TRUE
    /\ unknown' = TRUE

\* Lines 439-446, with l and c what the refinements of left_ps and of
\* current_ps gave.
SetupCompared(l, c, same) ==
    /\ left_ps' = l[1]
    /\ current_ps' = IF same THEN PS_move_all_mins_to_front(c[1]) ELSE c[1]
    /\ possible' = same
    /\ unknown' = same

\* SetupRefined without PS_move_all_mins_to_front (line 446).
SetupRefinedUnmoved(l, c) ==
    /\ left_ps' = l[1]
    /\ current_ps' = c[1]
    /\ possible' = (l[2] = c[2] /\ stacks_are_equivalent(l[1], c[1]))
    /\ unknown' = (l[2] = c[2] /\ stacks_are_equivalent(l[1], c[1]))

SetupRefined(l, c) ==
    SetupCompared(l, c, l[2] = c[2] /\ stacks_are_equivalent(l[1], c[1]))

\* Lines 368-374 and 406-438, with base the base of the copy of input_group
\* and pstack the perm_stack after SC_identify.
SetupWith(base, pstack) ==
    /\ group' = base
    /\ perm_stack' = pstack
    /\ SetupRefined(FirstRefinement(left_ps, S1, base, pstack),
                    FirstRefinement([entries |-> Ordering(ordering2, n),
                                     levels |-> left_ps.levels,
                                     depth |-> left_ps.depth],
                                    S2, base, pstack))

\* Setup without OP_clear(orbits_of_subgroup) (lines 391-392).
SetupUncleared ==
    /\ pc = "setup"
    /\ SetupWith(IF input_group = NO_GROUP THEN group
                 ELSE SC_initial_base(input_group, n, <<>>),
                 IF input_group = NO_GROUP THEN perm_stack
                 ELSE [perm_stack EXCEPT ![0] = IdPerm(n)])
    /\ vertices_have_been_reduced' = {}
    /\ indicators' = [i \in Pts(n) |-> -1]
    /\ pc' = "left"
    /\ UNCHANGED <<inputs, isom, ret, memory, first_ps, pruner, primary,
                   meets, vertices_to_split,
                   vertices_determining_current_stack, mem_err, automorphism,
                   permutation>>

Setup ==
    /\ pc = "setup"
    /\ SetupWith(IF input_group = NO_GROUP THEN group
                 ELSE SC_initial_base(input_group, n, <<>>),
                 IF input_group = NO_GROUP THEN perm_stack
                 ELSE [perm_stack EXCEPT ![0] = IdPerm(n)])
    /\ orbits_of_subgroup' = OP_new(n)
    /\ vertices_have_been_reduced' = {}
    /\ indicators' = [i \in Pts(n) |-> -1]
    /\ pc' = "left"
    /\ UNCHANGED <<inputs, isom, ret, memory, first_ps, pruner,
                   subgroup_primary_orbit_size, minimal_in_primary_orbit,
                   meets, vertices_to_split,
                   vertices_determining_current_stack, mem_err, automorphism,
                   permutation>>

(***************************************************************************)
(* Lines 449-467: one pass of the loop that refines left_ps down to a      *)
(* discrete partition.                                                     *)
(***************************************************************************)
\* Lines 464-467, with r what the split of left_ps at depth i gave.
LeftSplit(i, r) ==
    /\ left_ps' = r[1]
    /\ indicators' = [indicators EXCEPT ![i] = r[2]]
    /\ vertices_have_been_reduced' = vertices_have_been_reduced \ {r[1].depth}

LeftSplitByOrbits(i, r) ==
    /\ LeftSplit(i, r)
    /\ perm_stack' = r[3]

\* Lines 458-464, with base the base of the chain after b has been inserted.
LeftInsertBasePoint(i, k, base) ==
    /\ group' = base
    /\ LeftSplitByOrbits(i, split_point_and_refine_by_orbits(left_ps, k, S1,
                                input_group, base, perm_stack))

\* Lines 451-467, with fs what PS_first_smallest gave.
LeftDescentAt(i, fs) ==
    /\ vertices_to_split' = [vertices_to_split EXCEPT ![i] = fs[1]]
    /\ IF input_group = NO_GROUP
       THEN /\ LeftSplit(i, split_point_and_refine(left_ps, fs[2], S1))
            /\ UNCHANGED chain
       ELSE LeftInsertBasePoint(i, fs[2],
               SC_insert_base_point(group, i,
                  OrbitMcr(StabLevel(input_group, group, i), perm_stack[i][fs[2]])))

LeftDescent ==
    /\ pc = "left"
    /\ ~ PS_is_discrete(left_ps)
    /\ LeftDescentAt(left_ps.depth, PS_first_smallest(left_ps))
    /\ UNCHANGED <<inputs, isom, pc, ret, memory, current_ps, first_ps,
                   pruner, primary, meets,
                   vertices_determining_current_stack, flags, permutation>>

\* Lines 461-463: SC_insert_base_point_nomalloc reports that it ran out of memory.
LeftDescentMemErr ==
    /\ pc = "left"
    /\ ~ PS_is_discrete(left_ps)
    /\ input_group # NO_GROUP
    /\ vertices_to_split' = [vertices_to_split EXCEPT
                               ![left_ps.depth] = PS_first_smallest(left_ps)[1]]
    /\ mem_err' = TRUE
    /\ pc' = "mem_err"
    /\ UNCHANGED <<inputs, isom, ret, memory, stacks, chain, pruner, primary,
                   meets, vertices_have_been_reduced,
                   vertices_determining_current_stack, possible, unknown,
                   automorphism, indicators, permutation>>

\* Lines 449 and 469: left_ps is discrete and no error occurred.
\* LeftDone without the test of line 449: the descent of the left-hand side
\* may stop at any depth.
LeftDoneEarly ==
    /\ pc = "left"
    /\ pc' = "right"
    /\ UNCHANGED <<inputs, isom, ret, memory, stacks, chain, pruner, primary,
                   meets, split, flags, indicators, permutation>>

LeftDone ==
    /\ pc = "left"
    /\ PS_is_discrete(left_ps)
    /\ pc' = "right"
    /\ UNCHANGED <<inputs, isom, ret, memory, stacks, chain, pruner, primary,
                   meets, split, flags, indicators, permutation>>

\* MemErrExit with the work space freed whoever allocated it.
MemErrExitFreeing ==
    /\ pc = "mem_err"
    /\ mem_err
    /\ work_space' = "freed"
    /\ heap' = deallocate_dc_work_space(heap)
    /\ ret' = MemoryError
    /\ pc' = "done"
    /\ UNCHANGED <<inputs, isom, stacks, chain, pruner, primary, meets, split,
                   flags, indicators, permutation>>

\* Lines 520-523: the work space is freed if it is ours and MemoryError raised.
MemErrExit ==
    /\ pc = "mem_err"
    /\ mem_err
    /\ work_space' = IF work_space_prealloc THEN work_space ELSE "freed"
    /\ heap' = IF work_space_prealloc THEN heap ELSE deallocate_dc_work_space(heap)
    /\ ret' = MemoryError
    /\ pc' = "done"
    /\ UNCHANGED <<inputs, isom, stacks, chain, pruner, primary, meets, split,
                   flags, indicators, permutation>>

\* compare_structures, which is compare_perms for every call in this module.
compare_structures(gamma_1, gamma_2, MS1, MS2, degree) ==
    compare_perms(gamma_1, gamma_2, MS1, MS2, degree)

\* A hint of a caller that takes the children of a node for equivalent once
\* all points but two are fixed.
all_children_are_equivalent_pair(PS, S) ==
    Cardinality({i \in Pts(PS_degree(PS)) : ~ PS_is_fixed(PS, i)}) <= 2

\* A hint of a caller that takes the children of every node for equivalent.
all_children_are_equivalent_always(PS, S) == TRUE

\* all_children_are_equivalent, the hint passed to double_coset (line 271).
all_children_are_equivalent(PS, S) ==
    CASE callbacks = "pair" -> all_children_are_equivalent_pair(PS, S)
      [] callbacks \in {"always", "late_labels"} ->
            all_children_are_equivalent_always(PS, S)
      [] OTHER -> all_children_are_equivalent_trivial(PS, S)

\* The split of current_ps at `v` with the refinement of the mode of the call:
\* <<the stack, the invariant, perm_stack>>.
SplitCurrent(v) ==
    IF input_group = NO_GROUP
    THEN LET r == split_point_and_refine(current_ps, v, S2)
         IN <<r[1], r[2], perm_stack>>
    ELSE split_point_and_refine_by_orbits(current_ps, v, S2, input_group,
                                          group, perm_stack)

(***************************************************************************)
(* Lines 470-475: the right-side descent picks the first candidate of the  *)
(* next depth.                                                             *)
(***************************************************************************)
\* Lines 472-475, with fs what PS_first_smallest gave.
RightChooseAt(i, fs) ==
    /\ vertices_to_split' = [vertices_to_split EXCEPT ![i] = fs[1]]
    /\ vertices_determining_current_stack' =
          [vertices_determining_current_stack EXCEPT ![i] = fs[2]]
    /\ possible' = (input_group = NO_GROUP \/
          SC_in_basic_orbit(input_group, group, i, perm_stack[i][fs[2]]))

RightChoose ==
    /\ pc = "right"
    /\ ~ PS_is_discrete(current_ps)
    /\ possible
    /\ RightChooseAt(current_ps.depth, PS_first_smallest(current_ps))
    /\ pc' = "right_split"
    /\ UNCHANGED <<inputs, isom, ret, memory, stacks, chain, pruner, primary,
                   meets, vertices_have_been_reduced, unknown, mem_err,
                   automorphism, indicators, permutation>>

\* Lines 494-504: after a failed split, the next candidate at the deepest
\* depth that still has one.
RECURSIVE RightBacktrack(_, _)
RightBacktrack(depth, vdcs) ==
    IF depth < 0
    THEN [depth |-> depth, vdcs |-> vdcs, possible |-> FALSE]
    ELSE LET j == bitset_next(vertices_to_split[depth], vdcs[depth] + 1)
         IN IF j = -1
            THEN RightBacktrack(depth - 1, vdcs)
            ELSE [depth |-> depth, vdcs |-> [vdcs EXCEPT ![depth] = j],
                  possible |-> TRUE]

(***************************************************************************)
(* Lines 476-504: one pass of the inner loop of the right-side descent.    *)
(***************************************************************************)
\* Lines 494-504, with r the split that failed and back where the search
\* goes on.
RightBackTo(r, back) ==
    /\ current_ps' = [r[1] EXCEPT !.depth = back.depth]
    /\ vertices_determining_current_stack' = back.vdcs
    /\ possible' = back.possible
    /\ pc' = "right_split"
    /\ UNCHANGED current_kids_are_same

\* RightKeep without the update of current_kids_are_same of lines 491-492.
RightKeepSame(cur) ==
    /\ current_ps' = cur
    /\ UNCHANGED current_kids_are_same
    /\ pc' = "right"
    /\ UNCHANGED <<vertices_determining_current_stack, possible>>

\* Lines 490-493, with cur the stack after PS_move_all_mins_to_front.
RightKeep(cur) ==
    /\ current_ps' = cur
    /\ current_kids_are_same' = IF all_children_are_equivalent(cur, S2)
                                THEN current_kids_are_same
                                ELSE cur.depth + 1
    /\ pc' = "right"
    /\ UNCHANGED <<vertices_determining_current_stack, possible>>

\* Lines 485-504, with r what the split of current_ps at depth i gave.
RightSplitOn(i, r) ==
    /\ perm_stack' = r[3]
    /\ IF indicators[i] = r[2] /\ stacks_are_equivalent(left_ps, r[1])
       THEN RightKeep(PS_move_all_mins_to_front(r[1]))
       ELSE RightBackTo(r, RightBacktrack(r[1].depth - 1,
                                          vertices_determining_current_stack))

RightSplit ==
    /\ pc = "right_split"
    /\ IF ~ possible
       THEN /\ pc' = "right"
            /\ UNCHANGED <<current_ps, perm_stack, current_kids_are_same,
                           vertices_determining_current_stack, possible>>
       ELSE RightSplitOn(current_ps.depth,
               SplitCurrent(vertices_determining_current_stack[current_ps.depth]))
    /\ UNCHANGED <<inputs, isom, ret, memory, left_ps, first_ps, group,
                   pruner, primary, first_meets_current, first_kids_are_same,
                   vertices_to_split, vertices_have_been_reduced, unknown,
                   mem_err, automorphism, indicators, permutation>>

(***************************************************************************)
(* Lines 505-518: the first leaf of the right-hand side.                   *)
(***************************************************************************)
\* Lines 514-518: the leaf is not an isomorphism; it becomes the first stack.
FirstLeaf ==
    /\ first_meets_current' = current_ps.depth
    /\ first_kids_are_same' = current_ps.depth
    /\ first_ps' = current_ps
    /\ current_ps' = [current_ps EXCEPT !.depth = current_ps.depth - 1]

\* RightLeafChecked with the first leaf taken as the first stack whatever
\* compare_structures says of it.
RightLeafUnchecked(perm, found) ==
    /\ permutation' = perm
    /\ unknown' = unknown
    /\ FirstLeaf

\* Lines 506-518, with perm what is in `permutation` after line 510 and
\* found whether the leaf is an isomorphism.
RightLeafChecked(perm, found) ==
    /\ permutation' = perm
    /\ unknown' = (unknown /\ ~ found)
    /\ IF unknown /\ ~ found
       THEN FirstLeaf
       ELSE UNCHANGED <<current_ps, first_ps, first_meets_current,
                        first_kids_are_same>>

\* RightLeafWith without the test SC_contains of the input group.
RightLeafAnyGroup(perm) ==
    RightLeafChecked(perm,
        IF input_group = NO_GROUP
        THEN compare_structures(left_ps.entries, current_ps.entries, S1, S2, n) = 0
        ELSE compare_structures(perm, IdPerm(n), S1, S2, n) = 0)

RightLeafWith(perm) ==
    RightLeafChecked(perm,
        IF input_group = NO_GROUP
        THEN compare_structures(left_ps.entries, current_ps.entries, S1, S2, n) = 0
        ELSE /\ SC_contains(input_group, perm)
             /\ compare_structures(perm, IdPerm(n), S1, S2, n) = 0)

RightLeaf ==
    /\ pc = "right"
    /\ PS_is_discrete(current_ps) \/ ~ possible
    /\ IF ~ possible
       THEN UNCHANGED <<current_ps, first_ps, first_meets_current,
                        first_kids_are_same, unknown, permutation>>
       ELSE RightLeafWith(IF input_group = NO_GROUP THEN permutation
                          ELSE PS_get_perm_from(left_ps, current_ps))
    /\ pc' = "main"
    /\ UNCHANGED <<inputs, isom, ret, memory, left_ps, chain, pruner,
                   primary, current_kids_are_same, split, possible, mem_err,
                   automorphism, indicators>>

\* The condition of the main loop (line 526).
MainLoopRuns == possible /\ unknown /\ current_ps.depth # -1

\* ReducedBySymmetries with every recorded generator applied, whatever it
\* fixes.
ReducedByEveryGenerator(d) ==
    {k \in vertices_to_split[d] :
        \A i \in 0 .. index_in_fp_and_mcr :
           k \in minimal_cell_reps_of_generators[i + 1]}

\* Lines 534-544: vertices_to_split[d] without the points that are not
\* minimal in their orbit under a recorded generator fixing every point split
\* at the depths before d.
ReducedBySymmetries(d) ==
    LET applies(i) == \A j \in 0 .. (d - 1) :
                         vertices_determining_current_stack[j]
                            \in fixed_points_of_generators[i + 1]
    IN {k \in vertices_to_split[d] :
          \A i \in 0 .. index_in_fp_and_mcr :
             applies(i) => k \in minimal_cell_reps_of_generators[i + 1]}

\* Lines 570-602: along the first stack, count the last point split into the
\* primary orbit and move on to the next candidate that is the least point of
\* its class of orbits_of_subgroup.
RECURSIVE FirstStackNext(_, _, _, _)
FirstStackNext(d, v, size, minimal) ==
    LET size1 == IF orbits_of_subgroup[v] = orbits_of_subgroup[minimal]
                 THEN size + 1 ELSE size
        i == bitset_next(vertices_to_split[d], v + 1)
    IN IF i = -1 THEN [found |-> FALSE, v |-> -1, size |-> size1]
       ELSE IF orbits_of_subgroup[i] = i
       THEN [found |-> TRUE, v |-> i, size |-> size1]
       ELSE FirstStackNext(d, i, size1, minimal)

(***************************************************************************)
(* Lines 526-607, step I of the main loop: the next vertex to split.       *)
(***************************************************************************)
\* KidsAtMost without the clipping of lines 606-607.
KidsUnclipped(d) == current_kids_are_same

\* Lines 606-607
KidsAtMost(d) == IF current_kids_are_same > d + 1 THEN d + 1
                 ELSE current_kids_are_same

\* OffFirstStackNext that starts over at depth d when no candidate is left.
OffFirstStackNextAgain(d, i) ==
    IF i # -1
    THEN /\ vertices_determining_current_stack' =
               [vertices_determining_current_stack EXCEPT ![d] = i]
         /\ current_kids_are_same' = KidsAtMost(d)
         /\ pc' = "refine"
         /\ UNCHANGED current_ps
    ELSE /\ vertices_determining_current_stack' =
               [vertices_determining_current_stack EXCEPT ![d] = -1]
         /\ pc' = "main"
         /\ UNCHANGED <<current_ps, current_kids_are_same>>

\* Lines 547-555, with i the next point of vertices_to_split[d], or -1.
OffFirstStackNext(d, i) ==
    IF i # -1
    THEN /\ vertices_determining_current_stack' =
               [vertices_determining_current_stack EXCEPT ![d] = i]
         /\ current_kids_are_same' = KidsAtMost(d)
         /\ pc' = "refine"
         /\ UNCHANGED current_ps
    ELSE /\ current_ps' = [current_ps EXCEPT !.depth = d - 1]
         /\ pc' = "main"
         /\ UNCHANGED <<vertices_determining_current_stack,
                        current_kids_are_same>>

\* Lines 533-555, with vts what is left of vertices_to_split[d].
OffFirstStack(d, vts) ==
    /\ vertices_to_split' = [vertices_to_split EXCEPT ![d] = vts]
    /\ vertices_have_been_reduced' = vertices_have_been_reduced \cup {d}
    /\ OffFirstStackNext(d,
          bitset_next(vts, vertices_determining_current_stack[d] + 1))
    /\ UNCHANGED <<first_meets_current, first_kids_are_same,
                   subgroup_primary_orbit_size, minimal_in_primary_orbit>>

\* Lines 570-602, with nxt what FirstStackNext found.
OnFirstStackNext(d, nxt) ==
    /\ vertices_determining_current_stack' =
          [vertices_determining_current_stack EXCEPT ![d] = nxt.v]
    /\ IF nxt.found
       THEN /\ subgroup_primary_orbit_size' = nxt.size
            /\ current_kids_are_same' = KidsAtMost(d)
            /\ pc' = "refine"
            /\ UNCHANGED <<current_ps, first_kids_are_same>>
       ELSE /\ first_kids_are_same' =
                  IF Cardinality(vertices_to_split[d]) = nxt.size
                     /\ first_kids_are_same = d + 1
                  THEN d ELSE first_kids_are_same
            /\ subgroup_primary_orbit_size' = 0
            /\ current_ps' = [current_ps EXCEPT !.depth = d - 1]
            /\ pc' = "main"
            /\ UNCHANGED current_kids_are_same

\* Lines 560-602, with minimal what minimal_in_primary_orbit is after line 569.
OnFirstStack(d, minimal) ==
    /\ first_meets_current' = d
    /\ minimal_in_primary_orbit' = minimal
    /\ OnFirstStackNext(d,
          FirstStackNext(d, vertices_determining_current_stack[d],
                         subgroup_primary_orbit_size, minimal))
    /\ UNCHANGED <<vertices_to_split, vertices_have_been_reduced>>

ChooseVertexAt(d) ==
    IF d > first_meets_current
    THEN OffFirstStack(d, IF d \in vertices_have_been_reduced
                          THEN vertices_to_split[d]
                          ELSE ReducedBySymmetries(d))
    ELSE OnFirstStack(d, IF d < first_meets_current /\ vertices_to_split[d] # {}
                         THEN SetMin(vertices_to_split[d])
                         ELSE minimal_in_primary_orbit)

ChooseVertex ==
    /\ pc = "main"
    /\ MainLoopRuns
    /\ ChooseVertexAt(current_ps.depth)
    /\ UNCHANGED <<inputs, isom, ret, memory, left_ps, first_ps, chain,
                   pruner, orbits_of_subgroup, flags, indicators, permutation>>

(***************************************************************************)
(* Lines 611-652, step II of the main loop: one split of current_ps and    *)
(* what the two nested loops do after it.                                  *)
(***************************************************************************)
\* Lines 631-652: cur is not discrete; fs is what PS_first_smallest gave, ok
\* whether `possible` is still set after line 634 and j the next candidate
\* at depth i.
RefineDownInner(i, cur, fs, ok, j) ==
    /\ vertices_to_split' = [vertices_to_split EXCEPT ![cur.depth] = fs[1]]
    /\ IF ok
       THEN /\ current_ps' = cur
            /\ vertices_determining_current_stack' =
                  [vertices_determining_current_stack
                      EXCEPT ![cur.depth] = fs[2]]
            /\ vertices_have_been_reduced' =
                  vertices_have_been_reduced \ {cur.depth}
            /\ current_kids_are_same' =
                  IF all_children_are_equivalent(cur, S2)
                  THEN current_kids_are_same ELSE cur.depth + 1
            /\ possible' = TRUE
            /\ pc' = "refine"
       ELSE IF j = -1
       THEN /\ current_ps' = cur
            /\ vertices_determining_current_stack' =
                  [vertices_determining_current_stack
                      EXCEPT ![cur.depth] = fs[2]]
            /\ possible' = FALSE
            /\ pc' = "leaf"
            /\ UNCHANGED <<vertices_have_been_reduced, current_kids_are_same>>
       ELSE /\ current_ps' = [cur EXCEPT !.depth = cur.depth - 1]
            /\ vertices_determining_current_stack' =
                  [vertices_determining_current_stack
                      EXCEPT ![cur.depth] = fs[2], ![i] = j]
            /\ possible' = TRUE
            /\ pc' = "refine"
            /\ UNCHANGED <<vertices_have_been_reduced, current_kids_are_same>>

\* Lines 625-634, with fs what PS_first_smallest gave for cur.
RefineDownChecked(i, cur, pstack, matches, fs) ==
    RefineDownInner(i, cur, fs,
        /\ matches
        /\ input_group = NO_GROUP \/
              SC_in_basic_orbit(input_group, group, cur.depth,
                                pstack[cur.depth][fs[2]]),
        bitset_next(vertices_to_split[i],
                    vertices_determining_current_stack[i] + 1))

\* Lines 625-652, with matches whether the invariant and the cells agree
\* with left_ps.
RefineDownSplit(i, cur, pstack, matches) ==
    /\ perm_stack' = pstack
    /\ IF PS_is_discrete(cur)
       THEN /\ current_ps' = cur
            /\ possible' = matches
            /\ pc' = "leaf"
            /\ UNCHANGED <<vertices_to_split, vertices_have_been_reduced,
                           vertices_determining_current_stack,
                           current_kids_are_same>>
       ELSE RefineDownChecked(i, cur, pstack, matches, PS_first_smallest(cur))

\* RefineDownTo without the test of the invariant at line 625.
RefineDownToAnyInvariant(i, k, cur, pstack) ==
    RefineDownSplit(i, cur, pstack, stacks_are_equivalent(left_ps, cur))

\* Lines 619-628, with k the invariant of the split, cur the stack after
\* PS_move_all_mins_to_front and pstack the perm_stack after update_perm_stack.
RefineDownTo(i, k, cur, pstack) ==
    RefineDownSplit(i, cur, pstack,
                    indicators[i] = k /\ stacks_are_equivalent(left_ps, cur))

\* Lines 614-652, with r what the split of current_ps at depth i gave.
RefineDownOn(i, r) ==
    RefineDownTo(i, r[2], PS_move_all_mins_to_front(r[1]),
        IF input_group = NO_GROUP THEN r[3]
        ELSE update_perm_stack(input_group, group, r[1].depth,
                               vertices_determining_current_stack[i], r[3]))

RefineDown ==
    /\ pc = "refine"
    /\ RefineDownOn(current_ps.depth,
          SplitCurrent(vertices_determining_current_stack[current_ps.depth]))
    /\ UNCHANGED <<inputs, isom, ret, memory, left_ps, first_ps, group,
                   pruner, primary, first_meets_current, first_kids_are_same,
                   unknown, mem_err, automorphism, indicators, permutation>>

\* Lines 691-696: the least point of the cycle of i under gamma.
RECURSIVE CycleMin(_, _, _, _)
CycleMin(gamma, i, j, k) ==
    IF j = i THEN k
    ELSE CycleMin(gamma, i, gamma[j], IF j < k THEN j ELSE k)

\* Lines 681-684 and 714-717: the slot of the ring that is written next.
\* NextIndex without the test of lines 681 and 714.
NextIndexUnbounded == index_in_fp_and_mcr + 1

\* The ring index without the last-slot test of the source: it advances
\* whenever it is at most the last slot.
NextIndexPastEnd == IF index_in_fp_and_mcr <= len_of_fp_and_mcr - 1
                    THEN index_in_fp_and_mcr + 1
                    ELSE index_in_fp_and_mcr

NextIndex == IF index_in_fp_and_mcr < len_of_fp_and_mcr - 1
             THEN index_in_fp_and_mcr + 1
             ELSE index_in_fp_and_mcr

\* The ring with slot NextIndex holding `bits`.
RingWrite(ring, bits) == IF NextIndex + 1 > Len(ring)
                         THEN Append(ring, bits)
                         ELSE [ring EXCEPT ![NextIndex + 1] = bits]

(***************************************************************************)
(* Lines 654-679, step III of the main loop: is the leaf an automorphism   *)
(* of S2, or an isomorphism from S1 to S2?                                 *)
(***************************************************************************)
\* Lines 662-679, with perm what line 673 leaves in `permutation` and
\* isomorphism whether the leaf is accepted.
CheckIsomorphism(perm, isomorphism) ==
    /\ permutation' = perm
    /\ IF isomorphism
       THEN /\ unknown' = FALSE
            /\ pc' = "output"
            /\ UNCHANGED possible
       ELSE /\ possible' = FALSE
            /\ pc' = "not_possible"
            /\ UNCHANGED unknown

\* CheckInGroup without the call of compare_structures.
CheckMembershipOnly(perm2) ==
    CheckIsomorphism(perm2, SC_contains(input_group, perm2))

\* Lines 662-679 under an input group, with perm2 what PS_get_perm_from
\* gives for left_ps and current_ps.
CheckInGroup(perm2) ==
    CheckIsomorphism(perm2,
        /\ SC_contains(input_group, perm2)
        /\ compare_structures(perm2, IdPerm(n), S1, S2, n) = 0)

\* CheckLeafWith with id_perm handed to compare_structures in place of
\* left_ps.entries.
CheckLeafFromIdentity(perm1, auto) ==
    /\ automorphism' = auto
    /\ IF auto
       THEN /\ permutation' = perm1
            /\ pc' = "automorphism"
            /\ UNCHANGED <<possible, unknown>>
       ELSE IF current_ps.depth # left_ps.depth
       THEN CheckIsomorphism(perm1, FALSE)
       ELSE IF input_group = NO_GROUP
       THEN CheckIsomorphism(perm1,
               compare_structures(IdPerm(n), current_ps.entries, S1, S2, n) = 0)
       ELSE CheckInGroup(PS_get_perm_from(left_ps, current_ps))

\* Lines 656-679, with perm1 what PS_get_perm_from gives for first_ps and
\* current_ps and auto whether it is an automorphism of S2.
CheckLeafWith(perm1, auto) ==
    /\ automorphism' = auto
    /\ IF auto
       THEN /\ permutation' = perm1
            /\ pc' = "automorphism"
            /\ UNCHANGED <<possible, unknown>>
       ELSE IF current_ps.depth # left_ps.depth
       THEN CheckIsomorphism(perm1, FALSE)
       ELSE IF input_group = NO_GROUP
       THEN CheckIsomorphism(perm1,
               compare_structures(left_ps.entries, current_ps.entries,
                                  S1, S2, n) = 0)
       ELSE CheckInGroup(PS_get_perm_from(left_ps, current_ps))

\* CheckLeafPerm without the call of compare_structures at line 658.
CheckLeafPermInGroup(perm1) ==
    CheckLeafWith(perm1, input_group = NO_GROUP \/ SC_contains(input_group, perm1))

CheckLeafPerm(perm1) ==
    CheckLeafWith(perm1,
        /\ compare_structures(perm1, IdPerm(n), S2, S2, n) = 0
        /\ input_group = NO_GROUP \/ SC_contains(input_group, perm1))

CheckLeaf ==
    /\ pc = "leaf"
    /\ IF ~ possible
       THEN /\ automorphism' = FALSE
            /\ pc' = "not_possible"
            /\ UNCHANGED <<permutation, possible, unknown>>
       ELSE CheckLeafPerm(PS_get_perm_from(first_ps, current_ps))
    /\ UNCHANGED <<inputs, isom, ret, memory, stacks, chain, pruner, primary,
                   meets, split, mem_err, indicators>>

(***************************************************************************)
(* Lines 680-707: an automorphism of S2 is recorded in the ring and merged *)
(* into orbits_of_subgroup, and the search returns to the first stack.     *)
(***************************************************************************)
\* Lines 681-700 and 714-724: the next slot of the ring takes fp and mcr.
RingRecord(fp, mcr) ==
    /\ index_in_fp_and_mcr' = NextIndex
    /\ fixed_points_of_generators' = RingWrite(fixed_points_of_generators, fp)
    /\ minimal_cell_reps_of_generators' =
          RingWrite(minimal_cell_reps_of_generators, mcr)

\* Lines 702-707, with merged what OP_merge_list_perm gave.
MergeAutomorphism(d, mcr, merged) ==
    /\ orbits_of_subgroup' = merged[1]
    /\ vertices_to_split' =
          IF /\ ~ (merged[2] /\ merged[1][minimal_in_primary_orbit]
                                    # minimal_in_primary_orbit)
             /\ d \in vertices_have_been_reduced
          THEN [vertices_to_split EXCEPT ![d] = vertices_to_split[d] \cap mcr]
          ELSE vertices_to_split

\* Lines 681-707, with mcr the least points of the cycles of `permutation`.
RecordWith(d, mcr) ==
    /\ RingRecord({i \in Pts(n) : permutation[i] = i}, mcr)
    /\ current_ps' = [current_ps EXCEPT !.depth = d]
    /\ MergeAutomorphism(d, mcr, OP_merge_list_perm(orbits_of_subgroup, permutation))

RecordAutomorphism ==
    /\ pc = "automorphism"
    /\ RecordWith(first_meets_current,
          {i \in Pts(n) : CycleMin(permutation, i, permutation[i], i) = i})
    /\ pc' = "main"
    /\ UNCHANGED <<inputs, isom, ret, memory, left_ps, first_ps, chain,
                   subgroup_primary_orbit_size, minimal_in_primary_orbit, meets,
                   vertices_have_been_reduced,
                   vertices_determining_current_stack, flags, indicators,
                   permutation>>

\* PseudoGenerator with fp holding every m that PS_is_fixed holds of.
PseudoGeneratorOfFixed(j, mcr) ==
    /\ RingRecord({m \in Pts(n) : PS_is_fixed(current_ps, m)}, mcr)
    /\ vertices_to_split' =
          IF j \in vertices_have_been_reduced
          THEN [vertices_to_split EXCEPT ![j] = vertices_to_split[j] \cap mcr]
          ELSE vertices_to_split

(***************************************************************************)
(* Lines 708-727: the branch failed; back up to the depth above which all  *)
(* children are the same, recording a pseudo-generator if that skips a     *)
(* level.                                                                  *)
(***************************************************************************)
\* Lines 714-727, with mcr the positions PS_is_mcr holds of.
PseudoGenerator(j, mcr) ==
    /\ RingRecord({m \in mcr : PS_is_fixed(current_ps, m)}, mcr)
    /\ vertices_to_split' =
          IF j \in vertices_have_been_reduced
          THEN [vertices_to_split EXCEPT ![j] = vertices_to_split[j] \cap mcr]
          ELSE vertices_to_split

NotPossible ==
    /\ pc = "not_possible"
    /\ possible' = TRUE
    /\ current_ps' = [current_ps EXCEPT !.depth = current_kids_are_same - 1]
    /\ IF current_ps.depth = current_kids_are_same
       THEN UNCHANGED <<pruner, vertices_to_split>>
       ELSE PseudoGenerator(current_kids_are_same - 1,
                            {m \in Pts(n) : PS_is_mcr(current_ps, m)})
    /\ pc' = "main"
    /\ UNCHANGED <<inputs, isom, ret, memory, left_ps, first_ps, chain,
                   primary, meets, vertices_have_been_reduced,
                   vertices_determining_current_stack, unknown, mem_err,
                   automorphism, indicators, permutation>>

(***************************************************************************)
(* Lines 729-737: the isomorphism is written, the work space freed if it   *)
(* is ours, and the answer returned.                                       *)
(***************************************************************************)
\* Output with isom written the other way round,
\* isom[current_ps.entries[i]] = left_ps.entries[i].
OutputInverse ==
    /\ (pc = "main" /\ ~ MainLoopRuns) \/ pc = "output"
    /\ isom' = IF possible /\ ~ unknown /\ isom # NULL
               THEN [x \in Pts(n) |->
                       left_ps.entries[CHOOSE i \in Pts(n) : current_ps.entries[i] = x]]
               ELSE isom
    /\ work_space' = IF work_space_prealloc THEN work_space ELSE "freed"
    /\ heap' = IF work_space_prealloc THEN heap ELSE deallocate_dc_work_space(heap)
    /\ ret' = IF possible /\ ~ unknown THEN 1 ELSE 0
    /\ pc' = "done"
    /\ UNCHANGED <<inputs, stacks, chain, pruner, primary, meets, split, flags,
                   indicators, permutation>>

\* Output with isom written whatever the answer is.
OutputAlways ==
    /\ (pc = "main" /\ ~ MainLoopRuns) \/ pc = "output"
    /\ isom' = IF isom # NULL
               THEN [x \in Pts(n) |->
                       current_ps.entries[CHOOSE i \in Pts(n) : left_ps.entries[i] = x]]
               ELSE isom
    /\ work_space' = IF work_space_prealloc THEN work_space ELSE "freed"
    /\ heap' = IF work_space_prealloc THEN heap ELSE deallocate_dc_work_space(heap)
    /\ ret' = IF possible /\ ~ unknown THEN 1 ELSE 0
    /\ pc' = "done"
    /\ UNCHANGED <<inputs, stacks, chain, pruner, primary, meets, split, flags,
                   indicators, permutation>>

Output ==
    /\ (pc = "main" /\ ~ MainLoopRuns) \/ pc = "output"
    /\ isom' = IF possible /\ ~ unknown /\ isom # NULL
               THEN [x \in Pts(n) |->
                       current_ps.entries[CHOOSE i \in Pts(n) : left_ps.entries[i] = x]]
               ELSE isom
    /\ work_space' = IF work_space_prealloc THEN work_space ELSE "freed"
    /\ heap' = IF work_space_prealloc THEN heap ELSE deallocate_dc_work_space(heap)
    /\ ret' = IF possible /\ ~ unknown THEN 1 ELSE 0
    /\ pc' = "done"
    /\ UNCHANGED <<inputs, stacks, chain, pruner, primary, meets, split, flags,
                   indicators, permutation>>

(***************************************************************************)
(* A caller that calls double_coset a second time, keeping what the first  *)
(* call answered.                                                          *)
(***************************************************************************)
\* Lines 323-355 again: the locals of the second call.
Recall ==
    /\ pc' = "entry"
    /\ ret' = UNSET
    /\ work_space' = IF work_space_prealloc THEN "live" ELSE "none"
    /\ heap' = IF work_space_prealloc THEN allocate_dc_work_space(n) ELSE NoWorkSpace
    /\ left_ps' = partition1
    /\ current_ps' = BlankStack(n)
    /\ first_ps' = BlankStack(n)
    /\ first_meets_current' = -1
    /\ current_kids_are_same' = 1
    /\ first_kids_are_same' = UNSET
    /\ indicators' = Blank(n)
    /\ orbits_of_subgroup' = OP_new(n)
    /\ subgroup_primary_orbit_size' = 0
    /\ minimal_in_primary_orbit' = UNSET
    /\ fixed_points_of_generators' = <<>>
    /\ minimal_cell_reps_of_generators' = <<>>
    /\ index_in_fp_and_mcr' = -1
    /\ vertices_to_split' = [d \in Pts(n) |-> {}]
    /\ vertices_have_been_reduced' = {}
    /\ permutation' = Blank(n)
    /\ vertices_determining_current_stack' = Blank(n)
    /\ perm_stack' = [d \in Pts(n) |-> Blank(n)]
    /\ group' = <<>>
    /\ possible' = TRUE
    /\ unknown' = TRUE
    /\ mem_err' = FALSE
    /\ automorphism' = FALSE
    /\ isom' = IF isom = NULL THEN NULL ELSE IsomBefore(n)

\* The same call with S1 and S2 exchanged.
CallExchanged ==
    /\ pc = "done"
    /\ earlier = <<>>
    /\ ret # MemoryError
    /\ n > 0
    /\ earlier' = <<[call |-> "exchanged", ret |-> ret, isom |-> isom]>>
    /\ S1' = S2
    /\ S2' = S1
    /\ UNCHANGED <<n, partition1, ordering2, input_group, work_space_prealloc,
                   callbacks>>
    /\ Recall

\* The same call with a larger group, or with none (all of S_n).
CallWithLargerGroup ==
    /\ pc = "done"
    /\ earlier = <<>>
    /\ ret # MemoryError
    /\ input_group # NO_GROUP
    /\ earlier' = <<[call |-> "larger group", ret |-> ret, isom |-> isom]>>
    /\ \/ input_group' = NO_GROUP
       \/ /\ input_group' \in SubgroupsOf[n]
          /\ input_group \subseteq input_group'
          /\ input_group' # input_group
    /\ UNCHANGED <<n, S1, S2, partition1, ordering2, work_space_prealloc,
                   callbacks>>
    /\ Recall

Next ==
    \/ Entry
    \/ AllocFails
    \/ Setup
    \/ LeftDescent
    \/ LeftDescentMemErr
    \/ LeftDone
    \/ MemErrExit
    \/ RightChoose
    \/ RightSplit
    \/ RightLeaf
    \/ ChooseVertex
    \/ RefineDown
    \/ CheckLeaf
    \/ RecordAutomorphism
    \/ NotPossible
    \/ Output

Spec == Init /\ [][Next]_vars

(***************************************************************************)
(* One call of double_coset with every way allocate_dc_work_space fails.   *)
(***************************************************************************)
\* Lines 226-235 and 363-365: some of the allocations of lines 215-223 fail.
AllocFailsPartly ==
    /\ pc = "entry"
    /\ n # 0
    /\ ~ work_space_prealloc
    /\ \E failed \in (SUBSET Components) \ {{}} : heap' = AllocatedPartly(failed)
    /\ ret' = MemoryError
    /\ pc' = "done"
    /\ UNCHANGED <<inputs, isom, work_space, stacks, chain, pruner, primary,
                   meets, split, flags, indicators, permutation>>

\* Lines 243-248 and 363-365: one call of bitset_init raises MemoryError.
AllocFailsBitset ==
    /\ pc = "entry"
    /\ n # 0
    /\ ~ work_space_prealloc
    /\ \E k \in 0 .. (NBitsets(n) - 1) : heap' = AllocatedBitsets(n, k)
    /\ ret' = MemoryError
    /\ pc' = "done"
    /\ UNCHANGED <<inputs, isom, work_space, stacks, chain, pruner, primary,
                   meets, split, flags, indicators, permutation>>

\* Calls on the unit partition that compare a list with a rearrangement of
\* it, with a work space of the caller or without.
WorkSpaceInputs(k) ==
    /\ n = k
    /\ S1 \in FirstSeen(k)
    /\ S2 \in Rearranged(S1, k)
    /\ partition1 = PS_new_unit(k)
    /\ ordering2 = NULL
    /\ input_group = NO_GROUP \/ input_group \in SubgroupsOf[k]
    /\ work_space_prealloc \in BOOLEAN
    /\ callbacks = "trivial"
    /\ isom = IsomBefore(k)

InitWorkSpace ==
    /\ \E k \in 0 .. MaxN : WorkSpaceInputs(k)
    /\ Locals
    /\ earlier = <<>>

NextWorkSpace ==
    \/ Next
    \/ AllocFailsPartly
    \/ AllocFailsBitset

SpecWorkSpace == InitWorkSpace /\ [][NextWorkSpace]_vars

(***************************************************************************)
(* A caller that hands the work space of one call to the next.             *)
(***************************************************************************)
\* Lines 323-355 and 395-398 at a call that is handed the work space of the
\* call before: the locals are new, what lives in the work space is as the
\* call before left it.
Reenter ==
    /\ pc' = "entry"
    /\ ret' = UNSET
    /\ left_ps' = partition1
    /\ first_meets_current' = -1
    /\ current_kids_are_same' = 1
    /\ first_kids_are_same' = UNSET
    /\ subgroup_primary_orbit_size' = 0
    /\ minimal_in_primary_orbit' = UNSET
    /\ index_in_fp_and_mcr' = -1
    /\ possible' = TRUE
    /\ unknown' = TRUE
    /\ mem_err' = FALSE
    /\ automorphism' = FALSE
    /\ isom' = IF isom = NULL THEN NULL ELSE IsomBefore(n)
    /\ UNCHANGED <<memory, current_ps, first_ps, indicators, orbits_of_subgroup,
                   fixed_points_of_generators, minimal_cell_reps_of_generators,
                   vertices_to_split, vertices_have_been_reduced, permutation,
                   vertices_determining_current_stack, perm_stack, group>>

\* After a call on a new work space, another call of the same degree on that
\* work space: S1 and S2 exchanged, or another input group.
CallOther ==
    /\ pc = "done"
    /\ earlier = <<>>
    /\ n > 0
    /\ work_space_prealloc
    /\ earlier' = <<[call |-> "first", ret |-> ret, isom |-> isom, S1 |-> S1,
                     S2 |-> S2, input_group |-> input_group]>>
    /\ \/ S1' = S2 /\ S2' = S1 /\ UNCHANGED input_group
       \/ /\ input_group' = NO_GROUP \/ input_group' \in SubgroupsOf[n]
          /\ input_group' # input_group
          /\ UNCHANGED <<S1, S2>>
    /\ UNCHANGED <<n, partition1, ordering2, work_space_prealloc, callbacks>>
    /\ Reenter

\* The first call again, on the work space as the other call left it.
CallReusing ==
    /\ pc = "done"
    /\ earlier # <<>>
    /\ earlier[1].call = "first"
    /\ earlier' = <<[call |-> "reused", ret |-> earlier[1].ret,
                     isom |-> earlier[1].isom,
                     orbits_of_subgroup |-> orbits_of_subgroup,
                     vertices_have_been_reduced |-> vertices_have_been_reduced]>>
    /\ S1' = earlier[1].S1
    /\ S2' = earlier[1].S2
    /\ input_group' = earlier[1].input_group
    /\ UNCHANGED <<n, partition1, ordering2, work_space_prealloc, callbacks>>
    /\ Reenter

InitReuse ==
    /\ \E k \in 0 .. MaxN : WorkSpaceInputs(k)
    /\ Locals
    /\ earlier = <<>>

NextReuse ==
    \/ Next
    \/ CallOther
    \/ CallReusing

SpecReuse == InitReuse /\ [][NextReuse]_vars

(***************************************************************************)
(* Callers that pass other callbacks than the trivial ones, and a search   *)
(* long enough to fill the arrays of lines 680-700 and 714-727.            *)
(***************************************************************************)
Callbacks == {"trivial", "pair", "always", "labels", "late_labels"}

\* Calls of degree k on the unit partition with any of the callbacks.
CallbackInputs(k) ==
    /\ n = k
    /\ S1 \in FirstSeen(k)
    /\ S2 \in Structures(k)
    /\ partition1 = PS_new_unit(k)
    /\ ordering2 = NULL
    /\ input_group = NO_GROUP \/ input_group \in SubgroupsOf[k]
    /\ work_space_prealloc = FALSE
    /\ callbacks \in Callbacks
    /\ isom = IsomBefore(k)

RingDegree == 7

\* A call of degree RingDegree on the unit partition without a group: S1 is
\* no rearrangement of S2, so every leaf fails, and the one symmetry of S2
\* exchanges 0 and 4.
RingInputs ==
    /\ n = RingDegree
    /\ S1 = [i \in Pts(RingDegree) |-> IF i < 3 THEN 0 ELSE i - 2]
    /\ S2 = [i \in Pts(RingDegree) |-> IF i = 4 THEN 0 ELSE i]
    /\ partition1 = PS_new_unit(RingDegree)
    /\ ordering2 = NULL
    /\ input_group = NO_GROUP
    /\ work_space_prealloc = FALSE
    /\ callbacks = "pair"
    /\ isom = IsomBefore(RingDegree)

PrunerDegree == 4

\* A call of degree PrunerDegree on the unit partition without a group: S1
\* is no rearrangement of S2, so no leaf gives an isomorphism, and the
\* symmetries of S2 are the permutations that fix 0.
PrunerInputs ==
    /\ n = PrunerDegree
    /\ S1 = [i \in Pts(PrunerDegree) |-> 2]
    /\ S2 = [i \in Pts(PrunerDegree) |-> IF i = 0 THEN 0 ELSE 1]
    /\ partition1 = PS_new_unit(PrunerDegree)
    /\ ordering2 = NULL
    /\ input_group = NO_GROUP
    /\ work_space_prealloc = FALSE
    /\ callbacks = "trivial"
    /\ isom = IsomBefore(PrunerDegree)

\* A call of degree PrunerDegree on the unit partition without a group,
\* whose hint lets a failed branch go up more than one level and whose
\* refinement rejects a branch two levels down, where a cell of two points
\* is left.
BacktrackInputs ==
    /\ n = PrunerDegree
    /\ S1 = [i \in Pts(PrunerDegree) |-> 0]
    /\ S2 = [i \in Pts(PrunerDegree) |-> i]
    /\ partition1 = PS_new_unit(PrunerDegree)
    /\ ordering2 = NULL
    /\ input_group = NO_GROUP
    /\ work_space_prealloc = FALSE
    /\ callbacks = "late_labels"
    /\ isom = IsomBefore(PrunerDegree)

InitCallbacks ==
    /\ \/ \E k \in 0 .. MaxN : CallbackInputs(k)
       \/ RingInputs
       \/ PrunerInputs
       \/ BacktrackInputs
    /\ Locals
    /\ earlier = <<>>

SpecCallbacks == InitCallbacks /\ [][Next]_vars

\* Two calls in a row.
InitTwoCalls ==
    /\ \/ \E k \in 0 .. (MaxN - 1) : AllInputs(k)
       \/ ListInputs(MaxN)
       \/ PartitionInputs(MaxN)
    /\ Locals
    /\ earlier = <<>>

NextTwoCalls ==
    \/ Next
    \/ CallExchanged
    \/ CallWithLargerGroup

SpecTwoCalls == InitTwoCalls /\ [][NextTwoCalls]_vars

(***************************************************************************)
(* What the callers of double_coset rely on.                               *)
(***************************************************************************)
\* The call is one coset_eq makes (line 190).
IsCosetEqCall ==
    /\ n > 0
    /\ S1 \in Perms(n)
    /\ S2 \in Perms(n)
    /\ partition1 = PS_new_unit(n)
    /\ ordering2 = IdPerm(n)
    /\ input_group # NO_GROUP
    /\ isom # NULL

\* perm1 is g.perm2, composing left to right, for some g of G: the two are
\* in the same right coset of G.
SameRightCoset(G, perm1, perm2) ==
    \E g \in G : \A x \in DOMAIN perm1 : perm1[x] = perm2[g[x]]

\* The right cosets of G in the symmetric group of degree k.
RightCosets(G, k) ==
    {{q \in Perms(k) : SameRightCoset(G, p, q)} : p \in Perms(k)}

\* The lengths of reps the doctest of coset_eq expects (lines 143, 156, 169).
DoctestReps ==
    /\ Cardinality(RightCosets(GroupOf({c_perm(<<1, 2, 3, 0>>)}, DoctestDegree),
                               DoctestDegree)) = 6
    /\ Cardinality(RightCosets(GroupOf({c_perm(<<1, 0, 2, 3>>),
                                        c_perm(<<0, 1, 3, 2>>)}, DoctestDegree),
                               DoctestDegree)) = 6
    /\ Cardinality(RightCosets(GroupOf({c_perm(<<1, 2, 0, 3>>)}, DoctestDegree),
                               DoctestDegree)) = 8

\* C1: a call of coset_eq that returns answers 1 exactly when perm1 and perm2
\* are in the same right coset of the group of the generators; the answers
\* then put the permutations of the doctest into as many buckets as there
\* are right cosets, which is 6, 6 and 8 for its three groups.
C1_DecisionCorrectness ==
    /\ (pc = "done" /\ IsCosetEqCall /\ ret # MemoryError)
          => ((ret = 1) <=> SameRightCoset(input_group, S1, S2))
    /\ (pc = "done" /\ n = DoctestDegree /\ S1 = IdPerm(n) /\ S2 = S1
          /\ Cardinality(input_group) = 3)
          => DoctestReps

\* A doctest call on two different permutations of one coset has returned.
C1_Witness ==
    /\ pc = "done"
    /\ IsCosetEqCall
    /\ n = DoctestDegree
    /\ S1 # S2
    /\ Cardinality(input_group) = 3
    /\ ret = 1

\* The isom buffer is as the caller handed it over.
IsomUntouched == isom = NULL \/ isom = IsomBefore(n)

\* C2: when double_coset returns 1 and isom is supplied, left_ps and
\* current_ps are discrete, isom[left_ps.entries[i]] = current_ps.entries[i]
\* for every i, isom is a bijection of 0..n-1 and an element of the input
\* group if there is one, and compare_structures answers 0 for the leaf.
C2_WitnessValidity ==
    (pc = "done" /\ ret = 1 /\ isom # NULL) =>
        /\ PS_is_discrete(left_ps)
        /\ PS_is_discrete(current_ps)
        /\ \A i \in Pts(n) : isom[left_ps.entries[i]] = current_ps.entries[i]
        /\ isom \in Perms(n)
        /\ input_group # NO_GROUP => isom \in input_group
        /\ compare_structures(left_ps.entries, current_ps.entries, S1, S2, n) = 0
        /\ compare_structures(IdPerm(n), isom, S1, S2, n) = 0

\* A call with an input group has returned 1 with an isom that is neither
\* the identity nor its own inverse.
C2_Witness ==
    /\ pc = "done"
    /\ ret = 1
    /\ isom # NULL
    /\ input_group # NO_GROUP
    /\ \E x \in Pts(n) : isom[isom[x]] # x

\* C3: when perm1 and perm2 are in the same right coset of G, coset_eq
\* returns an element g of G with perm1[g[i]] = perm2[i] for every i.
C3_ResultRelation ==
    (pc = "done" /\ ret # MemoryError /\ IsCosetEqCall
       /\ SameRightCoset(input_group, S1, S2)) =>
        /\ ret = 1
        /\ isom \in input_group
        /\ \A i \in Pts(n) : S1[isom[i]] = S2[i]

\* C8: a call with n = 0 returns 0 in its first step, which takes no work
\* space and changes nothing of partition1, the work space or isom.
C8_DegenerateInput ==
    [][(pc = "entry" /\ n = 0) =>
         /\ pc' = "done"
         /\ ret' = 0
         /\ UNCHANGED <<inputs, isom, memory, stacks, chain, pruner, primary,
                        meets, split, flags, indicators, permutation>>]_vars

\* A call with n = 0 and a work space of the caller has returned.
C8_Witness ==
    /\ pc = "done"
    /\ n = 0
    /\ ret = 0
    /\ work_space_prealloc
    /\ work_space = "live"

\* C9: isom is as the caller handed it over in every state of a call but
\* the one reached by returning 1.
C9_IsomUntouched ==
    ~ (pc = "done" /\ ret = 1) => IsomUntouched

\* A call that went through the main loop, met an automorphism and saw its
\* candidate leaves fail has returned 0 with a buffer for isom.
C9_Witness ==
    /\ pc = "done"
    /\ ret = 0
    /\ n > 0
    /\ isom = IsomBefore(n)
    /\ PS_is_discrete(left_ps)
    /\ index_in_fp_and_mcr >= 0

\* C10: once base-point insertion has failed in the left descent, the call
\* only frees the work space, if it is its own, and raises MemoryError, an
\* outcome that is neither 0 nor 1; current_ps is never descended and isom
\* is not written.
C10_OutOfMemory ==
    mem_err =>
        /\ pc \in {"mem_err", "done"}
        /\ IsomUntouched
        /\ ~ PS_is_discrete(left_ps)
        /\ current_ps.depth = 0
        /\ index_in_fp_and_mcr = -1
        /\ pc = "mem_err" => work_space = "live" /\ ret = UNSET
        /\ pc = "done" =>
              /\ ret = MemoryError
              /\ ret \notin {0, 1}
              /\ work_space = IF work_space_prealloc THEN "live" ELSE "freed"

\* A call with a work space of the caller and a buffer for isom has ended
\* in MemoryError after a failed insertion.
C10_Witness ==
    /\ pc = "done"
    /\ mem_err
    /\ work_space_prealloc
    /\ isom # NULL
    /\ n > 0

\* The points of the cell of position p, for entries under the levels of PS.
CellPoints(PS, entries, p) ==
    {entries[q] : q \in CellStart(PS.levels, PS.depth, p) ..
                        CellEnd(PS.levels, PS.depth, p)}

\* partition1 and the partition ordering2 makes have the same points in
\* every cell.
SameCells ==
    \A p \in Pts(n) :
        CellPoints(partition1, partition1.entries, p)
          = CellPoints(partition1, Ordering(ordering2, n), p)

\* The call compares a structure with itself under the identity ordering
\* and the full symmetric group.
IsReflexiveCall ==
    /\ n > 0
    /\ S1 = S2
    /\ Ordering(ordering2, n) = IdPerm(n)
    /\ input_group = NO_GROUP

\* The answer is 1 and the isom written leaves the structure as it is.
AnswersReflexive ==
    /\ ret = 1
    /\ isom # NULL => compare_structures(isom, IdPerm(n), S1, S1, n) = 0

\* C4 as stated: every call that compares S with itself under a mins-first
\* partition, the identity ordering and the full symmetric group returns 1
\* with an isom for which compare_structures(isom, id, S, S, n) is 0.
C4_Reflexivity ==
    (pc = "done" /\ ret # MemoryError /\ IsReflexiveCall) => AnswersReflexive

\* C4 amended: the same, for the partitions whose cells hold the points
\* that the cells of the identity ordering hold.
C4_ReflexivitySameCells ==
    (pc = "done" /\ ret # MemoryError /\ IsReflexiveCall /\ SameCells)
        => AnswersReflexive

\* Such a call has returned for a partition with a cell of two points or
\* more whose entries are not in the identity order.
C4_Witness ==
    /\ pc = "done"
    /\ ret = 1
    /\ IsReflexiveCall
    /\ SameCells
    /\ partition1.entries # IdPerm(n)
    /\ ~ PS_is_discrete(partition1)
    /\ S1 # IdPerm(n)
    /\ isom # NULL

\* The call compares a structure with itself under the trivial group and
\* an ordering2 that is given.
IsTrivialGroupCall ==
    /\ n > 0
    /\ input_group = {IdPerm(n)}
    /\ S1 = S2
    /\ ordering2 # NULL

\* C7 as stated: under the trivial group and with S1 = S2, double_coset
\* returns 1 exactly when ordering2 is the identity.
C7_TrivialGroup ==
    (pc = "done" /\ ret # MemoryError /\ IsTrivialGroupCall)
        => ((ret = 1) <=> (ordering2 = IdPerm(n)))

\* C7 amended: under the trivial group and with S1 = S2, double_coset
\* returns 1 exactly when every cell of partition1 holds the points that the
\* same cell of ordering2 holds.
C7_TrivialGroupSameCells ==
    (pc = "done" /\ ret # MemoryError /\ IsTrivialGroupCall)
        => ((ret = 1) <=> SameCells)

\* Such a call has returned 1 for an ordering2 that is not the identity.
C7_Witness ==
    /\ pc = "done"
    /\ ret = 1
    /\ IsTrivialGroupCall
    /\ ordering2 # IdPerm(n)
    /\ partition1.entries = IdPerm(n)
    /\ isom # NULL

\* The call that has returned is the second one, and the first one was the
\* same call with S1 and S2 exchanged; neither ended in MemoryError.
ExchangedReturned ==
    /\ pc = "done"
    /\ earlier # <<>>
    /\ earlier[1].call = "exchanged"
    /\ ret # MemoryError

\* The two answers are the same and, when they are 1, the composition of
\* the two isoms is an element of the input group.
AnswersSymmetric ==
    /\ ret = earlier[1].ret
    /\ (ret = 1 /\ isom # NULL) =>
          /\ SC_mult_perms(earlier[1].isom, isom) \in Perms(n)
          /\ input_group # NO_GROUP =>
                SC_mult_perms(earlier[1].isom, isom) \in input_group

\* C5 as stated: double_coset(S1, S2, ...) and double_coset(S2, S1, ...)
\* return the same value and, when it is 1, the composition of the two
\* isoms is an element of G.
C5_Symmetry ==
    ExchangedReturned => AnswersSymmetric

\* C5 amended: the same, for the calls in which every cell of partition1
\* holds the points that the same cell of ordering2 holds.
C5_SymmetrySameCells ==
    (ExchangedReturned /\ SameCells) => AnswersSymmetric

\* Both calls have returned 1 under an input group, for two different
\* lists and isoms that are not the identity.
C5_Witness ==
    /\ ExchangedReturned
    /\ SameCells
    /\ ret = 1
    /\ S1 # S2
    /\ input_group # NO_GROUP
    /\ ~ PS_is_discrete(partition1)
    /\ isom # IdPerm(n)
    /\ SC_mult_perms(earlier[1].isom, isom) # IdPerm(n)

\* The call that has returned is the second one, and the first one was the
\* same call with a subgroup of its input group; neither ended in
\* MemoryError.
LargerGroupReturned ==
    /\ pc = "done"
    /\ earlier # <<>>
    /\ earlier[1].call = "larger group"
    /\ ret # MemoryError

\* C6: when double_coset returns 1 under an input group H, it returns 1
\* under every group that contains H, and under no input group, for the same
\* S1, S2, partition1 and ordering2.
C6_SubgroupMonotonicity ==
    (LargerGroupReturned /\ earlier[1].ret = 1) => ret = 1

\* The call under a proper subgroup returned 1 for two different lists, and
\* the call under the larger group has returned.
C6_Witness ==
    /\ LargerGroupReturned
    /\ earlier[1].ret = 1
    /\ S1 # S2
    /\ input_group # NO_GROUP
    /\ ~ PS_is_discrete(partition1)
    /\ isom # NULL
    /\ isom # earlier[1].isom

\* Every part of the work space is in one of these states.
AllParts(h, states) == \A c \in Parts : h.parts[c] \in states

\* C11: nothing of a work space is ever freed twice; a work space of the
\* caller is never deallocated; a work space of the call is deallocated
\* once on each way out, whether 0, 1 or MemoryError; and when
\* allocate_dc_work_space fails, what it had allocated is freed once and NULL
\* is returned.
C11_ResourceDiscipline ==
    /\ AllParts(heap, {"never", "live", "freed"})
    /\ heap.freed <= 1
    /\ work_space_prealloc => heap = allocate_dc_work_space(n)
    /\ (pc = "done" /\ ~ work_space_prealloc) =>
          /\ AllParts(heap, {"never", "freed"})
          /\ heap.inited > 0 => heap.freed = 1
          /\ (n > 0 /\ (ret # MemoryError \/ mem_err)) =>
                /\ AllParts(heap, {"freed"})
                /\ heap.inited = NBitsets(n)
                /\ work_space = "freed"
          /\ (ret = MemoryError /\ ~ mem_err) => work_space = "none"

\* allocate_dc_work_space has failed with the int array and some bitsets
\* allocated and one stabilizer chain not.
C11_Witness ==
    /\ pc = "done"
    /\ ret = MemoryError
    /\ ~ mem_err
    /\ heap.parts["int_array"] = "freed"
    /\ heap.parts["bitset_array"] = "freed"
    /\ heap.parts["group2"] = "never"

\* The call that has returned is the first call made again, on the work
\* space another call left.
ReusedReturned ==
    /\ pc = "done"
    /\ earlier # <<>>
    /\ earlier[1].call = "reused"

\* C12: a call on a work space that an earlier call of the same degree left
\* starts from a cleared orbit partition and cleared reduced-flags, returns
\* what the same call returned on a new work space, with the same isom, and
\* leaves the work space allocated.
C12_WorkSpaceReuse ==
    /\ (earlier # <<>> /\ pc = "left") =>
          /\ orbits_of_subgroup = OP_new(n)
          /\ vertices_have_been_reduced = {}
    /\ ReusedReturned =>
          /\ work_space = "live"
          /\ heap = allocate_dc_work_space(n)
          /\ (ret # MemoryError /\ earlier[1].ret # MemoryError) =>
                /\ ret = earlier[1].ret
                /\ isom = earlier[1].isom

\* A call has returned 1, as on a new work space, on a work space whose orbit
\* partition and reduced-flags another call had written.
C12_Witness ==
    /\ ReusedReturned
    /\ ret = 1
    /\ isom # IdPerm(n)
    /\ earlier[1].orbits_of_subgroup # OP_new(n)
    /\ earlier[1].vertices_have_been_reduced # {}
    /\ earlier[1].ret = 1

\* The right-hand descent ends at a discrete current_ps with possible set.
AtFirstLeaf == pc = "right" /\ possible /\ PS_is_discrete(current_ps)

\* What compare_structures says of the first leaf against left_ps.
FirstLeafEqual ==
    IF input_group = NO_GROUP
    THEN compare_structures(left_ps.entries, current_ps.entries, S1, S2, n) = 0
    ELSE compare_structures(PS_get_perm_from(left_ps, current_ps), IdPerm(n),
                            S1, S2, n) = 0

\* The leaf becomes the first stack: first_ps is current_ps, both marks are
\* its depth and current_ps is one level up.
FirstLeafTaken ==
    /\ first_meets_current' = current_ps.depth
    /\ first_kids_are_same' = current_ps.depth
    /\ first_ps' = current_ps
    /\ current_ps' = [current_ps EXCEPT !.depth = current_ps.depth - 1]

\* C13 as stated: when the right-hand descent reaches a discrete current_ps
\* and compare_structures reports equality with left_ps, current_ps is
\* copied to first_ps, first_meets_current and first_kids_are_same become
\* its depth and current_ps.depth goes down by one.
C13_FirstLeafOnEquality ==
    [][(AtFirstLeaf /\ FirstLeafEqual /\ pc' = "main") => FirstLeafTaken]_vars

\* C13, amended: the leaf is taken as the first stack when it is not
\* accepted, that is, when compare_structures reports a difference or, with
\* an input group, the permutation from left_ps to current_ps is not in the
\* group; unknown then stays set.  When compare_structures reports equality
\* (and the permutation is in the group) unknown is cleared and neither
\* stack nor mark changes.
C13_FirstLeafOnDifference ==
    [][(AtFirstLeaf /\ pc' = "main") =>
          IF /\ FirstLeafEqual
             /\ input_group # NO_GROUP =>
                   SC_contains(input_group, PS_get_perm_from(left_ps, current_ps))
          THEN /\ ~ unknown'
               /\ UNCHANGED <<current_ps, first_ps, first_meets_current,
                              first_kids_are_same>>
          ELSE /\ unknown'
               /\ FirstLeafTaken]_vars

\* In a call with an input group the first leaf was not accepted and has
\* become the first stack; nothing has been recorded yet.
C13_Witness ==
    /\ pc = "main"
    /\ possible
    /\ unknown
    /\ first_meets_current > 0
    /\ index_in_fp_and_mcr = -1
    /\ first_kids_are_same = first_meets_current
    /\ first_ps.depth = first_meets_current
    /\ PS_is_discrete(first_ps)
    /\ current_ps = [first_ps EXCEPT !.depth = first_ps.depth - 1]
    /\ input_group # NO_GROUP

\* The arrays of fixed points and of minimal cell representatives are full.
RingFull == index_in_fp_and_mcr = len_of_fp_and_mcr - 1

\* C14 as stated: once index_in_fp_and_mcr is len_of_fp_and_mcr - 1 nothing
\* more is recorded: every entry of both arrays, the last one included, and
\* the index stay as they are.
C14_RingFrozen == [][RingFull => UNCHANGED pruner]_vars

\* C14, amended: index_in_fp_and_mcr never exceeds len_of_fp_and_mcr - 1;
\* once it is there it stays, the entries in the slots before the last stay
\* as they are, and every later automorphism is written over the last slot.
C14_RingLastSlot ==
    /\ [](index_in_fp_and_mcr <= len_of_fp_and_mcr - 1)
    /\ [][RingFull =>
            /\ RingFull'
            /\ Len(fixed_points_of_generators') = len_of_fp_and_mcr
            /\ Len(minimal_cell_reps_of_generators') = len_of_fp_and_mcr
            /\ \A i \in 1 .. (len_of_fp_and_mcr - 1) :
                  /\ fixed_points_of_generators'[i] = fixed_points_of_generators[i]
                  /\ minimal_cell_reps_of_generators'[i] =
                        minimal_cell_reps_of_generators[i]
            /\ pc = "automorphism" =>
                  fixed_points_of_generators'[len_of_fp_and_mcr] =
                      {i \in Pts(n) : permutation[i] = i}]_vars

\* The arrays were full when an automorphism that moves a point was found:
\* the last slot holds its fixed points, the slot before it those of a
\* pseudo-generator recorded at a leaf.
C14_Witness ==
    /\ RingFull
    /\ pc = "main"
    /\ automorphism
    /\ fixed_points_of_generators[len_of_fp_and_mcr] =
          {i \in Pts(n) : permutation[i] = i}
    /\ fixed_points_of_generators[len_of_fp_and_mcr] # Pts(n)
    /\ fixed_points_of_generators[len_of_fp_and_mcr - 1] = Pts(n)

\* current_ps as lines 423-438 refine it at depth 0, before line 442 reads it.
RefinedAtDepth0 ==
    FirstRefinement([entries |-> Ordering(ordering2, n),
                     levels |-> left_ps.levels, depth |-> left_ps.depth], S2,
                    IF input_group = NO_GROUP THEN group
                    ELSE SC_initial_base(input_group, n, <<>>),
                    IF input_group = NO_GROUP THEN perm_stack
                    ELSE [perm_stack EXCEPT ![0] = IdPerm(n)])[1]

\* current_ps has the least point of every cell first where PS_first_smallest
\* and PS_get_perm_from read it after a refinement that is kept: in the
\* right-hand descent and at a leaf of the main loop.
MinsFirstCurrent ==
    /\ (pc = "right" /\ possible) => PS_mins_first(current_ps)
    /\ pc = "leaf" => PS_mins_first(current_ps)

\* C15 as stated: after every refinement, of left_ps as of current_ps, the
\* least point of every cell of the refined stack is first before
\* PS_first_smallest, stacks_are_equivalent or PS_get_perm_from reads it.
C15_MinsFirst ==
    /\ pc = "left" => PS_mins_first(left_ps)
    /\ pc = "setup" => PS_mins_first(RefinedAtDepth0)
    /\ MinsFirstCurrent

\* C15, amended: after every refinement of current_ps that the search keeps
\* the least point of every cell of current_ps is first before
\* PS_first_smallest or PS_get_perm_from reads it.  (left_ps is never put in
\* that order, and at depth 0 stacks_are_equivalent reads current_ps before
\* it is.)
C15_MinsFirstCurrent ==
    /\ []MinsFirstCurrent
    /\ [][(pc = "refine" /\ pc' = "refine"
             /\ current_ps'.depth = current_ps.depth + 1)
           => PS_mins_first(current_ps')]_vars

\* With an input group, the right-hand descent is about to read a current_ps
\* of depth 0 whose points are no longer in the order of ordering2, while
\* left_ps has a cell whose least point is not first.
C15_Witness ==
    /\ pc = "right"
    /\ possible
    /\ input_group # NO_GROUP
    /\ current_ps.depth = 0
    /\ ~ PS_is_discrete(current_ps)
    /\ current_ps.entries # Ordering(ordering2, n)
    /\ PS_mins_first(current_ps)
    /\ ~ PS_mins_first([left_ps EXCEPT !.depth = 0])

\* The automorphisms of S2 that are in the input group, if there is one.
AutomorphismsInGroup ==
    {g \in Perms(n) :
        /\ compare_structures(g, IdPerm(n), S2, S2, n) = 0
        /\ input_group = NO_GROUP \/ SC_contains(input_group, g)}

\* C16: the permutation that lines 680-707 record and merge into
\* orbits_of_subgroup is an automorphism of S2 and, with an input group, an
\* element of it; and any two points in one class of orbits_of_subgroup are
\* taken to each other by such an automorphism.
C16_AutomorphismClosure ==
    /\ pc = "automorphism" =>
          /\ compare_structures(permutation, IdPerm(n), S2, S2, n) = 0
          /\ input_group # NO_GROUP => SC_contains(input_group, permutation)
    /\ \A x, y \in Pts(n) :
          (x # y /\ orbits_of_subgroup[x] = orbits_of_subgroup[y]) =>
             \E g \in AutomorphismsInGroup : g[x] = y

\* An automorphism has been recorded in a call with an input group that is
\* not the whole symmetric group, and has joined two classes.
C16_Witness ==
    /\ pc = "main"
    /\ automorphism
    /\ input_group # NO_GROUP
    /\ input_group # Perms(n)
    /\ index_in_fp_and_mcr >= 0
    /\ orbits_of_subgroup # OP_new(n)
    /\ \E x \in Pts(n) : permutation[x] # x /\ orbits_of_subgroup[x] = orbits_of_subgroup[permutation[x]]

\* A leaf has been accepted: as an automorphism of S2, or as an isomorphism.
LeafAccepted ==
    \/ pc = "automorphism"
    \/ pc \in {"main", "output"} /\ possible /\ ~ unknown /\ n > 0

\* What refining current_ps gives after the point of depth d on the way to
\* the leaf is split off: <<the stack, the invariant, perm_stack>>.
RefinedBelow(d) ==
    IF input_group = NO_GROUP
    THEN split_point_and_refine([current_ps EXCEPT !.depth = d],
                                vertices_determining_current_stack[d], S2)
    ELSE split_point_and_refine_by_orbits([current_ps EXCEPT !.depth = d],
             vertices_determining_current_stack[d], S2, input_group, group,
             perm_stack)

\* C17: when a leaf is accepted, at every depth d above it the invariant of
\* the refinement of current_ps after the split at depth d is indicators[d],
\* current_ps has its cells where left_ps has them at every depth, and the
\* two stacks are equally deep.
C17_IndicatorMatching ==
    LeafAccepted =>
       /\ current_ps.depth = left_ps.depth
       /\ \A d \in 0 .. (current_ps.depth - 1) :
             /\ RefinedBelow(d)[2] = indicators[d]
             /\ stacks_are_equivalent(left_ps, RefinedBelow(d)[1])
       /\ \A d \in 0 .. current_ps.depth :
             stacks_are_equivalent([left_ps EXCEPT !.depth = d],
                                   [current_ps EXCEPT !.depth = d])

\* With an input group, a leaf two levels down that is not the first leaf
\* has been accepted as an automorphism, under invariants that are not all 0.
C17_Witness ==
    /\ pc = "automorphism"
    /\ input_group # NO_GROUP
    /\ current_ps.depth >= 2
    /\ \E d \in 0 .. (current_ps.depth - 1) : indicators[d] # 0

\* The refinement at depth 0 of the stack with the given entries (lines
\* 417-438), from the arguments of the call: <<the stack, the invariant>>.
Depth0Refinement(entries, S) ==
    FirstRefinement([partition1 EXCEPT !.entries = entries], S,
                    IF input_group = NO_GROUP THEN <<>>
                    ELSE SC_initial_base(input_group, n, <<>>),
                    [[d \in Pts(n) |-> Blank(n)] EXCEPT ![0] = IdPerm(n)])

\* The refinements at depth 0 have been made and gave two invariants, or
\* cells in different places (lines 439-444).
Depth0Rejected ==
    /\ n > 0
    /\ pc \notin {"entry", "setup"}
    /\ work_space # "none"
    /\ \/ Depth0Refinement(partition1.entries, S1)[2]
            # Depth0Refinement(Ordering(ordering2, n), S2)[2]
       \/ ~ stacks_are_equivalent(
               Depth0Refinement(partition1.entries, S1)[1],
               Depth0Refinement(Ordering(ordering2, n), S2)[1])

\* After a rejection at depth 0 neither the right-hand descent nor the main
\* loop has made a step, nothing has been compared or recorded and isom is
\* as it was.
NoSearchAfterRejection ==
    /\ ~ possible
    /\ ~ unknown
    /\ pc \in {"left", "mem_err", "right", "main", "done"}
    /\ current_ps.depth = 0
    /\ first_meets_current = -1
    /\ index_in_fp_and_mcr = -1
    /\ IsomUntouched

\* C18 as stated: after a rejection at depth 0 the call answers 0, with and
\* without an input group, and the search is not entered.
C18_Depth0Rejection ==
    Depth0Rejected =>
       /\ NoSearchAfterRejection
       /\ pc = "done" => ret = 0

\* C18, amended: after a rejection at depth 0 the search is not entered and
\* the call answers 0, unless there is an input group and the left-hand
\* descent, which still runs, fails to insert a base point: then the call
\* ends in MemoryError.
C18_Depth0RejectionOrMemoryError ==
    Depth0Rejected =>
       /\ NoSearchAfterRejection
       /\ pc = "done" =>
             \/ ret = 0
             \/ ret = MemoryError /\ mem_err /\ input_group # NO_GROUP

\* With an input group a call rejected at depth 0 has answered 0 after the
\* left-hand descent went down to a discrete left_ps.
C18_Witness ==
    /\ Depth0Rejected
    /\ pc = "done"
    /\ ret = 0
    /\ input_group # NO_GROUP
    /\ left_ps.depth > 0
    /\ PS_is_discrete(left_ps)

(***************************************************************************)
(* C19: the reduction of vertices_to_split by the recorded generators.     *)
(***************************************************************************)
\* The main loop is about to choose a point at depth current_ps.depth, off
\* the first stack.
ChoosingOffFirstStack ==
    /\ pc = "main"
    /\ MainLoopRuns
    /\ current_ps.depth > first_meets_current

\* The points split at the depths before d in the current branch.
SplitBefore(d) == {vertices_determining_current_stack[j] : j \in 0 .. (d - 1)}

\* The recorded ring entries whose fp holds every point split before d.
EntriesFixing(d) ==
    {i \in 0 .. index_in_fp_and_mcr :
        SplitBefore(d) \subseteq fixed_points_of_generators[i + 1]}

\* C19: a step that chooses a point at a depth d off the first stack with the
\* flag of d clear leaves in vertices_to_split[d] exactly its points that
\* are in mcr[i] for every recorded entry i whose fp holds every point split
\* before d, and sets the flag; with the flag set the step leaves
\* vertices_to_split[d] alone; no other depth changes; and a set flag is
\* cleared only by a descent that recomputes vertices_to_split[d].
C19_PrunerApplication ==
    [][/\ ChoosingOffFirstStack =>
            LET d == current_ps.depth
            IN /\ vertices_to_split'[d] =
                     IF d \in vertices_have_been_reduced
                     THEN vertices_to_split[d]
                     ELSE {k \in vertices_to_split[d] :
                             \A i \in EntriesFixing(d) :
                                k \in minimal_cell_reps_of_generators[i + 1]}
               /\ vertices_have_been_reduced' =
                     vertices_have_been_reduced \cup {d}
               /\ \A e \in DOMAIN vertices_to_split \ {d} :
                     vertices_to_split'[e] = vertices_to_split[e]
       /\ \A d \in vertices_have_been_reduced \ vertices_have_been_reduced' :
             /\ pc = "refine"
             /\ current_ps'.depth = d
             /\ current_ps.depth = d - 1
             /\ vertices_to_split'[d] = PS_first_smallest(current_ps')[1]
      ]_vars

\* A point has just been chosen at a depth d off the first stack after a
\* reduction in which one recorded entry took a point of the cell out of
\* vertices_to_split[d] and another entry, whose fp misses a point split
\* before d, did not apply although its mcr misses a point that was kept.
C19_Witness ==
    /\ pc = "refine"
    /\ possible
    /\ unknown
    /\ current_ps.depth > first_meets_current
    /\ current_ps.depth \in vertices_have_been_reduced
    /\ LET d == current_ps.depth
       IN /\ \E i \in EntriesFixing(d) :
                \E k \in PS_first_smallest(current_ps)[1]
                            \ vertices_to_split[d] :
                   k \notin minimal_cell_reps_of_generators[i + 1]
          /\ \E i \in (0 .. index_in_fp_and_mcr) \ EntriesFixing(d) :
                \E k \in vertices_to_split[d] :
                   k \notin minimal_cell_reps_of_generators[i + 1]

(***************************************************************************)
(* C20: the end of a branch that is not possible.                          *)
(***************************************************************************)
\* The m that PS_is_mcr holds of in current_ps, at the depth of the failure.
McrOfCurrent == {m \in Pts(n) : PS_is_mcr(current_ps, m)}

\* The m that PS_is_fixed holds of in current_ps, at the depth of the failure.
FixedOfCurrent == {m \in Pts(n) : PS_is_fixed(current_ps, m)}

\* The step records a generator with the given fp and mcr in the ring.
Recorded(fp, mcr) ==
    /\ index_in_fp_and_mcr' = NextIndex
    /\ fixed_points_of_generators'[NextIndex + 1] = fp
    /\ minimal_cell_reps_of_generators'[NextIndex + 1] = mcr

\* C20 as stated: the end of a branch that is not possible sets
\* current_ps.depth to current_kids_are_same - 1 and possible to true, and
\* if the depth went down by at least one level it records a generator whose
\* mcr is the m with PS_is_mcr and whose fp is the m with PS_is_fixed.
C20_BacktrackRecordsFixed ==
    [][pc = "not_possible" =>
          /\ current_ps'.depth = current_kids_are_same - 1
          /\ possible'
          /\ current_kids_are_same - 1 < current_ps.depth =>
                Recorded(FixedOfCurrent, McrOfCurrent)
      ]_vars

\* C20, amended: the end of a branch that is not possible sets
\* current_ps.depth to current_kids_are_same - 1 and possible to true; if
\* the depth of the failure differs from current_kids_are_same it records a
\* generator whose mcr is the m with PS_is_mcr and whose fp is the m with
\* both PS_is_mcr and PS_is_fixed, and otherwise it leaves the ring alone.
C20_BacktrackRecordsFixedMcr ==
    [][pc = "not_possible" =>
          /\ current_ps'.depth = current_kids_are_same - 1
          /\ possible'
          /\ IF current_ps.depth # current_kids_are_same
             THEN Recorded(McrOfCurrent \cap FixedOfCurrent, McrOfCurrent)
             ELSE UNCHANGED pruner
      ]_vars

\* A failed branch has just gone up more than one level from a stack that
\* was not discrete, and the newest ring entry holds the cell starts as mcr
\* and the one-point cells as fp, which are not all the m with PS_is_fixed.
C20_Witness ==
    /\ pc = "main"
    /\ possible
    /\ unknown
    /\ index_in_fp_and_mcr >= 0
    /\ current_ps.depth = current_kids_are_same - 1
    /\ \E i \in (current_kids_are_same + 1) .. (n - 1) :
          LET ps == [current_ps EXCEPT !.depth = i]
              mcr == {m \in Pts(n) : PS_is_mcr(ps, m)}
              fixed == {m \in Pts(n) : PS_is_fixed(ps, m)}
          IN /\ minimal_cell_reps_of_generators[index_in_fp_and_mcr + 1] = mcr
             /\ fixed_points_of_generators[index_in_fp_and_mcr + 1]
                   = mcr \cap fixed
             /\ fixed \ mcr # {}

(***************************************************************************)
(* C21: termination.  A call is run by one thread, which goes on to the    *)
(* next statement as long as the call has not returned or raised.          *)
(***************************************************************************)
Statements == {"entry", "setup", "left", "mem_err", "right", "right_split",
               "main", "refine", "leaf", "automorphism", "not_possible",
               "output", "done"}

\* Where the call is: the statement, and in the loops the depth of the
\* stack the loop works on and, while refining, the point being split.
Position ==
    <<pc,
      IF pc = "left" THEN left_ps.depth ELSE 0,
      IF pc \in {"main", "refine"} THEN current_ps.depth ELSE 0,
      IF pc = "refine"
      THEN vertices_determining_current_stack[current_ps.depth] ELSE 0>>

\* The thread goes on: the call has not ended, and it ends now or is at
\* another statement next.
GoesOn == pc # "done" /\ (pc' = "done" \/ pc' \in Statements \ {"done"})

\* Every step of Next is a step of GoesOn that changes Position, and Next
\* has a step wherever pc is not "done", so the condition is that of
\* WF_vars(Next).
SpecFair == Spec /\ WF_Position(GoesOn)

\* C21: every step of a call moves it on, and every call returns or raises
\* after finitely many steps, so that the left descent, the right descent
\* and the main loop all end.
C21_Termination ==
    /\ [][GoesOn /\ Position' # Position]_vars
    /\ <>(pc = "done")

\* The main loop has ended because no candidate was left at depth 0, after
\* the left descent went down to a discrete left_ps.
C21_Witness ==
    /\ pc = "done"
    /\ n > 0
    /\ ret = 0
    /\ PS_is_discrete(left_ps)
    /\ current_ps.depth = -1
    /\ unknown
    /\ possible

(***************************************************************************)
(* C22: the backtrack of a failed branch makes progress.                   *)
(***************************************************************************)
\* The statements of the main loop.
InMainLoop == pc \in {"main", "refine", "leaf", "automorphism", "not_possible"}

\* C22: whenever the handler of a failed branch runs,
\* 1 <= current_kids_are_same <= current_ps.depth, and the handler leaves
\* current_ps.depth at current_kids_are_same - 1, which is less than before
\* and not below 0; and a step of the main loop that takes
\* current_ps.depth to -1 is a step of the choice of the next vertex that
\* was at depth 0 and chose none.
C22_BacktrackProgress ==
    [][/\ pc = "not_possible" =>
             /\ 1 <= current_kids_are_same
             /\ current_kids_are_same <= current_ps.depth
             /\ current_ps'.depth = current_kids_are_same - 1
             /\ current_ps'.depth < current_ps.depth
             /\ current_ps'.depth >= 0
       /\ (InMainLoop /\ current_ps.depth # -1 /\ current_ps'.depth = -1) =>
             /\ pc = "main"
             /\ MainLoopRuns
             /\ current_ps.depth = 0
             /\ pc' = "main"
      ]_vars

\* A failed branch that ended at a discrete stack has just gone up more than
\* one level, to depth 0, and the search goes on there.
C22_Witness ==
    /\ pc = "main"
    /\ MainLoopRuns
    /\ n >= 3
    /\ current_ps.depth = 0
    /\ current_kids_are_same = 1
    /\ index_in_fp_and_mcr >= 0
    /\ fixed_points_of_generators[index_in_fp_and_mcr + 1] = Pts(n)
    /\ minimal_cell_reps_of_generators[index_in_fp_and_mcr + 1] = Pts(n)

\* ---------------------------------------------------------------------------
\* Index bounds.

\* The work space is laid out and the locals of the search are assigned.
SearchStarted == n > 0 /\ current_ps.depth # UNSET

\* The depth the statement at pc indexes the per-depth arrays with
\* (vertices_to_split, vertices_determining_current_stack, indicators, the
\* reduced-flag bit), and the set of depths it may write one level below.
DepthIndexed ==
    CASE pc = "left" -> {left_ps.depth}
           \cup (IF PS_is_discrete(left_ps) THEN {} ELSE {left_ps.depth + 1})
      [] pc \in {"right", "right_split"} /\ possible ->
           {current_ps.depth}
           \cup (IF PS_is_discrete(current_ps) THEN {} ELSE {current_ps.depth + 1})
      [] pc = "main" /\ MainLoopRuns -> {current_ps.depth}
      [] pc = "refine" -> {current_ps.depth, current_ps.depth + 1}
      [] pc = "automorphism" -> {first_meets_current}
      [] pc = "not_possible" -> {current_kids_are_same - 1}
      [] OTHER -> {}

\* The ring slots the statement at pc reads or writes.
SlotIndexed ==
    CASE pc = "main" /\ MainLoopRuns -> 0 .. index_in_fp_and_mcr
      [] pc = "automorphism" -> {NextIndex}
      [] pc = "not_possible" /\ current_ps.depth # current_kids_are_same ->
           {NextIndex}
      [] OTHER -> {}

\* The step at pc reads minimal_in_primary_orbit without assigning it first.
ReadsMinimal ==
    /\ pc = "main" /\ MainLoopRuns
    /\ current_ps.depth <= first_meets_current
    /\ ~(current_ps.depth < first_meets_current
          /\ vertices_to_split[current_ps.depth] # {})

\* C23: once the search has started, the ring index stays in -1 .. 99 and
\* the depth of current_ps in -1 .. n-1; every statement indexes the
\* per-depth arrays with a depth d, 0 <= d < n, and the ring with a slot i,
\* 0 <= i <= 99; the point read from vertices_determining_current_stack on
\* the first stack is a point; minimal_in_primary_orbit is assigned before
\* it is read.
C23_IndexBounds ==
    SearchStarted =>
        /\ index_in_fp_and_mcr \in -1 .. len_of_fp_and_mcr - 1
        /\ current_ps.depth \in -1 .. n - 1
        /\ Len(fixed_points_of_generators) <= len_of_fp_and_mcr
        /\ Len(minimal_cell_reps_of_generators) <= len_of_fp_and_mcr
        /\ DepthIndexed \subseteq Pts(n)
        /\ SlotIndexed \subseteq 0 .. len_of_fp_and_mcr - 1
        /\ (pc = "main" /\ MainLoopRuns
              /\ current_ps.depth <= first_meets_current) =>
               vertices_determining_current_stack[current_ps.depth] \in Pts(n)
        /\ pc = "refine" =>
               vertices_determining_current_stack[current_ps.depth] \in Pts(n)
        /\ ReadsMinimal => minimal_in_primary_orbit \in Pts(n)

\* The search has backtracked to depth -1 with the ring index at its last
\* slot.
C23_Witness ==
    /\ SearchStarted /\ pc = "main" /\ current_ps.depth = -1 /\ possible
    /\ index_in_fp_and_mcr = len_of_fp_and_mcr - 1
    /\ minimal_in_primary_orbit \in Pts(n)

\* ---------------------------------------------------------------------------
\* No pseudo-generators under the trivial hint.

\* The caller's all_children_are_equivalent is one that answers false for
\* every partition stack, as the one of lines 103-104 does.
HintAlwaysFalse == callbacks \in {"trivial", "labels"}

FixedOfPerm(g) == {i \in Pts(n) : g[i] = i}

McrOfPerm(g) == {i \in Pts(n) : CycleMin(g, i, g[i], i) = i}

\* The ring entry k is the fixed points and the minimal cell representatives
\* of an automorphism of S2.
EntryOfAutomorphism(k) ==
    \E g \in Perms(n) :
        /\ compare_structures(g, IdPerm(n), S2, S2, n) = 0
        /\ fixed_points_of_generators[k] = FixedOfPerm(g)
        /\ minimal_cell_reps_of_generators[k] = McrOfPerm(g)

\* C24: when all_children_are_equivalent always answers false, the
\* not-possible handler finds the depth equal to current_kids_are_same,
\* records nothing and leaves the search one level up; the ring is written
\* only when an automorphism of S2 has been verified, with the fixed points
\* and minimal cell representatives of that automorphism, so every entry of
\* the ring is that of an automorphism of S2.
C24_NoPseudoGenerators ==
    /\ [](HintAlwaysFalse /\ SearchStarted =>
              \A k \in 1 .. Len(fixed_points_of_generators) :
                  EntryOfAutomorphism(k))
    /\ [][HintAlwaysFalse =>
            /\ pc = "not_possible" =>
                  /\ current_ps.depth = current_kids_are_same
                  /\ UNCHANGED <<pruner, vertices_to_split>>
                  /\ current_ps'.depth = current_ps.depth - 1
            /\ (pruner' # pruner /\ index_in_fp_and_mcr' # -1) =>
                  /\ pc = "automorphism"
                  /\ compare_structures(permutation, IdPerm(n), S2, S2, n) = 0
                  /\ Recorded(FixedOfPerm(permutation), McrOfPerm(permutation))
         ]_vars

\* A branch two levels down has failed under the always-false hint, with an
\* automorphism already in the ring.
C24_Witness ==
    /\ pc = "not_possible" /\ HintAlwaysFalse
    /\ current_ps.depth >= 2 /\ current_ps.depth = current_kids_are_same
    /\ index_in_fp_and_mcr >= 0

\* ---------------------------------------------------------------------------
\* The caller's partition is consumed.

\* double_coset has returned 0 or 1 (no MemoryError).
NormalReturn == pc = "done" /\ ret \in {0, 1}

\* partition1 after the refinement of lines 423-427.
LeftAtDepth0 == Depth0Refinement(partition1.entries, S1)[1]

\* C25 (as stated): for n > 0, on every normal return partition1 is
\* discrete, its depth is greater than at the call and it is not what it
\* was at the call.
C25_ConsumedAndAdvanced ==
    (NormalReturn /\ n > 0) =>
        /\ PS_is_discrete(left_ps)
        /\ left_ps.depth > partition1.depth
        /\ left_ps # partition1

\* C25 (amended): for n > 0, on every normal return partition1 is discrete
\* (also when the comparison at depth 0 has decided), its depth is greater
\* than at the call exactly when the refinement at depth 0 left it not
\* discrete, and it is what it was at the call exactly when it was discrete
\* at the call; for n = 0 it is what it was at the call.
C25_PartitionConsumed ==
    /\ (NormalReturn /\ n > 0) =>
          /\ PS_is_discrete(left_ps)
          /\ left_ps.depth >= partition1.depth
          /\ left_ps.depth > partition1.depth <=> ~ PS_is_discrete(LeftAtDepth0)
          /\ left_ps = partition1 <=> PS_is_discrete(partition1)
    /\ (NormalReturn /\ n = 0) => left_ps = partition1

\* The comparison at depth 0 has decided "not isomorphic" and partition1
\* has still been refined down to a discrete partition, one level deeper.
C25_Witness ==
    /\ NormalReturn /\ n > 0 /\ ret = 0 /\ ~ possible /\ ~ unknown
    /\ Depth0Rejected
    /\ ~ PS_is_discrete(partition1)
    /\ PS_is_discrete(left_ps) /\ left_ps.depth > partition1.depth

====
